---------------------------- MODULE Spec2Model ----------------------------
(***************************************************************************)
(* State-machine model of the hybrid voxel grid of MSF_LOAM                *)
(* (src/src/slam/hybrid_grid.cc): FlatGrid, NestedGrid, DynamicGrid, their *)
(* iterators, and HybridGridImpl::InsertScan / GetSurroundedCloud.         *)
(*                                                                         *)
(* Representation.                                                         *)
(*  - A 3D index (Eigen::Array3i) is a tuple <<x, y, z>>.                  *)
(*  - FlatGrid::cells_ (std::array<V, 512>) is a total function on         *)
(*    0..511.                                                              *)
(*  - An array or vector of std::unique_ptr<W> is the function from the    *)
(*    flat positions that hold a non-null handle to the sub-grid owned     *)
(*    there; a position outside its DOMAIN holds nullptr.  The size of     *)
(*    the DynamicGrid vector is kept in meta_cells_size.                   *)
(*  - A pointer returned by mutable_value is the path                      *)
(*    <<outer flat, nested flat, inner flat>> of the slot it points to.    *)
(*  - A PointCloudPtr is 0 (null) or the positive identity of a cloud of   *)
(*    the heap; the heap maps identities to point sequences.               *)
(***************************************************************************)
EXTENDS Integers, Sequences, FiniteSets, TLC

(***************************************************************************)
(* Program constants.                                                      *)
(***************************************************************************)
\* FlatGrid<ValueType, 3> inside GridBase
kFlatBits == 3
\* NestedGrid<..., 3> inside GridBase
kNestedBits == 3
\* CHECK_LE(new_bits, 8) in DynamicGrid::Grow
kMaxBits == 8
\* DynamicGrid() : bits_(1)
kInitialBits == 1

\* hybrid_grid_map_corner_(3.0), hybrid_grid_map_surf_(3.0): metres
kResolution == 3
\* const double kDist = 100.0: metres
kDist == 100

(***************************************************************************)
(* Bounds of the model.                                                    *)
(***************************************************************************)
\* point coordinates are whole multiples of 1/PointUnitsPerMetre metres
PointUnitsPerMetre == 2
\* number of non-empty InsertScan calls in one behaviour
MaxScans == 2
\* number of writes in one behaviour of the generic grid
MaxOps == 3
\* number of writes in one behaviour at the boundary of the range
MaxRangeOps == 2
\* GetCellIndex is applied to the points with coordinates up to this many cells
MaxCells == 2
\* number of results the odometry hands to LaserMapping
MaxFrames == 3


\* GpsFusion: timestamps are 0 .. MaxTime
MaxTime == 3

Pow2(n) == 2 ^ n

\* ValueType(): 0 for an integral V, the null handle for PointCloudPtr
DefaultValue == 0

\* IsDefaultValue(v): v == TValueType()
IsDefaultValue(v) == v = DefaultValue

\* static_cast<unsigned int>(x) >= n for an int x and an int n >= 0: a
\* negative x wraps to at least 2^31, above every non-negative int
UnsignedGE(x, n) == x < 0 \/ x >= n

(***************************************************************************)
(* Index arithmetic.                                                       *)
(***************************************************************************)
\* mutant: the flat index is x-major
ToFlatIndex_XMajor(index, bits) ==
    ((index[1] * Pow2(bits) + index[2]) * Pow2(bits)) + index[3]

ToFlatIndex(index, bits) ==
    ((index[3] * Pow2(bits) + index[2]) * Pow2(bits)) + index[1]

To3DIndex(index, bits) ==
    LET mask == Pow2(bits)
    IN  << index % mask, (index \div mask) % mask, (index \div mask) \div mask >>

\* Eigen coefficient-wise array operations
ArrAddScalar(a, s) == << a[1] + s, a[2] + s, a[3] + s >>
ArrMulScalar(a, s) == << a[1] * s, a[2] * s, a[3] * s >>
ArrSub(a, b) == << a[1] - b[1], a[2] - b[2], a[3] - b[3] >>
ArrAdd(a, b) == << a[1] + b[1], a[2] + b[2], a[3] + b[3] >>

(***************************************************************************)
(* FlatGrid<V, kFlatBits>                                                  *)
(***************************************************************************)
FlatGrid_grid_size == Pow2(kFlatBits)

FlatGrid_num_cells == Pow2(3 * kFlatBits)

\* mutant: the constructor leaves the cells unset (they hold a stale value)
FlatGrid_new_Uninitialised ==
    [cells_ |-> [i \in 0 .. (FlatGrid_num_cells - 1) |-> 1]]

\* FlatGrid(): every cell default constructed
FlatGrid_new == [cells_ |-> [i \in 0 .. (FlatGrid_num_cells - 1) |-> DefaultValue]]

FlatGrid_value(fg, index) == fg.cells_[ToFlatIndex(index, kFlatBits)]

\* pointer to the cell: its flat position
FlatGrid_mutable_value(fg, index) == ToFlatIndex(index, kFlatBits)

(***************************************************************************)
(* NestedGrid<FlatGrid, kNestedBits>                                       *)
(***************************************************************************)
NestedGrid_grid_size == FlatGrid_grid_size * Pow2(kNestedBits)

NestedGrid_num_cells == Pow2(3 * kNestedBits)

\* mutant: the constructor already allocates the first two FlatGrids
NestedGrid_new_TwoAllocated == [meta_cells_ |-> [k \in 0 .. 1 |-> FlatGrid_new]]

\* all handles null
NestedGrid_new == [meta_cells_ |-> << >>]

\* index / WrappedGrid::grid_size() on non-negative components
GetMetaIndex(index, wrapped_size) ==
    << index[1] \div wrapped_size, index[2] \div wrapped_size,
       index[3] \div wrapped_size >>

NestedGrid_value(ng, index) ==
    LET meta_index == GetMetaIndex(index, FlatGrid_grid_size)
        flat == ToFlatIndex(meta_index, kNestedBits)
    IN  IF flat \notin DOMAIN ng.meta_cells_
        THEN DefaultValue
        ELSE FlatGrid_value(ng.meta_cells_[flat],
                 ArrSub(index, ArrMulScalar(meta_index, FlatGrid_grid_size)))

\* returns the grid after the call and the path <<nested flat, inner flat>>
NestedGrid_mutable_value(ng, index) ==
    LET meta_index == GetMetaIndex(index, FlatGrid_grid_size)
        flat == ToFlatIndex(meta_index, kNestedBits)
        cells == IF flat \notin DOMAIN ng.meta_cells_
                 THEN (flat :> FlatGrid_new) @@ ng.meta_cells_
                 ELSE ng.meta_cells_
        inner_index == ArrSub(index, ArrMulScalar(meta_index, FlatGrid_grid_size))
    IN  [grid |-> [meta_cells_ |-> cells],
         slot |-> << flat, FlatGrid_mutable_value(cells[flat], inner_index) >>]

(***************************************************************************)
(* DynamicGrid<NestedGrid>                                                 *)
(***************************************************************************)
\* DynamicGrid() : bits_(1), meta_cells_(8)
DynamicGrid_new ==
    [bits_ |-> kInitialBits, meta_cells_size |-> Pow2(3 * kInitialBits),
     meta_cells_ |-> << >>]

DynamicGrid_grid_size(g) == NestedGrid_grid_size * Pow2(g.bits_)

\* index + (grid_size() >> 1)
ShiftedIndex(g, index) == ArrAddScalar(index, DynamicGrid_grid_size(g) \div 2)

\* mutant: the last voxel of each axis counts as out of range
OutOfRange_LastVoxel(g, shifted_index) ==
    \E i \in 1 .. 3 : UnsignedGE(shifted_index[i], DynamicGrid_grid_size(g) - 1)

\* (shifted_index.cast<unsigned int>() >= grid_size()).any()
OutOfRange(g, shifted_index) ==
    \E i \in 1 .. 3 : UnsignedGE(shifted_index[i], DynamicGrid_grid_size(g))

DynamicGrid_value(g, index) ==
    LET shifted_index == ShiftedIndex(g, index)
    IN  IF OutOfRange(g, shifted_index)
        THEN DefaultValue
        ELSE LET meta_index == GetMetaIndex(shifted_index, NestedGrid_grid_size)
                 flat == ToFlatIndex(meta_index, g.bits_)
             IN  IF flat \notin DOMAIN g.meta_cells_
                 THEN DefaultValue
                 ELSE NestedGrid_value(g.meta_cells_[flat],
                          ArrSub(shifted_index,
                                 ArrMulScalar(meta_index, NestedGrid_grid_size)))

\* mutant: the cap is reached one growth early
GrowCheck_OneBitShort(g) == g.bits_ + 1 < kMaxBits

\* mutant: the cap allows one growth too many
GrowCheck_OneBitMore(g) == g.bits_ + 1 <= kMaxBits + 1

\* CHECK_LE(new_bits, 8)
GrowCheck(g) == g.bits_ + 1 <= kMaxBits

\* mutant: the old handles keep their meta index, the grid is not re-centred
GrowNewFlat_NotRecentred(old_flat, bits) ==
    ToFlatIndex(To3DIndex(old_flat, bits), bits + 1)

\* mutant: the old handles are moved by the whole old size, 2^bits
GrowNewFlat_OffsetWholeSize(old_flat, bits) ==
    ToFlatIndex(ArrAddScalar(To3DIndex(old_flat, bits), Pow2(bits)), bits + 1)

\* position of an old handle in the grown vector
GrowNewFlat(old_flat, bits) ==
    ToFlatIndex(ArrAddScalar(To3DIndex(old_flat, bits), Pow2(bits - 1)), bits + 1)

\* mutant: the new vector is installed without moving the old handles
Grow_DropsCells(g) ==
    [bits_ |-> g.bits_ + 1,
     meta_cells_size |-> 8 * g.meta_cells_size,
     meta_cells_ |-> << >>]

\* mutant: the new vector is only twice as long as the old one
Grow_DoublesVector(g) ==
    LET moved == { GrowNewFlat(f, g.bits_) : f \in DOMAIN g.meta_cells_ }
    IN  [bits_ |-> g.bits_ + 1,
         meta_cells_size |-> 2 * g.meta_cells_size,
         meta_cells_ |->
            [n \in moved |->
                g.meta_cells_[CHOOSE f \in DOMAIN g.meta_cells_ :
                                 GrowNewFlat(f, g.bits_) = n]]]

\* Grow() when its CHECK passes: every old slot is moved to its new
\* position (moving a null handle leaves the new slot null)
Grow(g) ==
    LET new_bits == g.bits_ + 1
        moved == { GrowNewFlat(f, g.bits_) : f \in DOMAIN g.meta_cells_ }
    IN  [bits_ |-> new_bits,
         meta_cells_size |-> 8 * g.meta_cells_size,
         meta_cells_ |->
            [n \in moved |->
                g.meta_cells_[CHOOSE f \in DOMAIN g.meta_cells_ :
                                 GrowNewFlat(f, g.bits_) = n]]]

RECURSIVE DynamicGrid_mutable_value(_, _)
\* returns [fatal, grid, slot]: fatal when a CHECK of Grow failed (the
\* process is aborted); otherwise the grid after the call and the path
\* <<outer flat, nested flat, inner flat>> of the returned pointer
DynamicGrid_mutable_value(g, index) ==
    LET shifted_index == ShiftedIndex(g, index)
    IN  IF OutOfRange(g, shifted_index)
        THEN IF GrowCheck(g)
             THEN DynamicGrid_mutable_value(Grow(g), index)
             ELSE [fatal |-> TRUE, grid |-> g, slot |-> << >>]
        ELSE LET meta_index == GetMetaIndex(shifted_index, NestedGrid_grid_size)
                 flat == ToFlatIndex(meta_index, g.bits_)
                 cells == IF flat \notin DOMAIN g.meta_cells_
                          THEN (flat :> NestedGrid_new) @@ g.meta_cells_
                          ELSE g.meta_cells_
                 inner_index == ArrSub(shifted_index,
                                    ArrMulScalar(meta_index, NestedGrid_grid_size))
                 r == NestedGrid_mutable_value(cells[flat], inner_index)
             IN  [fatal |-> FALSE,
                  grid |-> [g EXCEPT !.meta_cells_ =
                               [cells EXCEPT ![flat] = r.grid]],
                  slot |-> << flat >> \o r.slot]

\* *ptr = v for a pointer returned by mutable_value
StoreAt(g, slot, v) ==
    [g EXCEPT !.meta_cells_[slot[1]].meta_cells_[slot[2]].cells_[slot[3]] = v]

\* *ptr for a pointer returned by mutable_value
LoadAt(g, slot) ==
    g.meta_cells_[slot[1]].meta_cells_[slot[2]].cells_[slot[3]]

(***************************************************************************)
(* Iterators.  A cursor current_ is the offset of the element it points to *)
(* from the start of the array, end_ being the array's length.             *)
(***************************************************************************)
\* least element of a non-empty set of integers
MinOf(S) == CHOOSE m \in S : \A n \in S : m <= n

\* while (!Done() && IsDefaultValue(*current_)) ++current_;
\* the cursor stops at the first non-default cell at or after it, or at end_
FlatSkipDefault(fg, current) ==
    LET cells == fg.cells_
        ahead == { c \in current .. (FlatGrid_num_cells - 1) :
                      ~IsDefaultValue(cells[c]) }
    IN  IF ahead = {} THEN FlatGrid_num_cells ELSE MinOf(ahead)

\* FlatGrid::Iterator(flat_grid)
FlatIterator_new(fg) == [current_ |-> FlatSkipDefault(fg, 0)]

\* FlatGrid::Iterator::Next: do ++current_ while (!Done() && default)
FlatIterator_Next(fg, it) == [current_ |-> FlatSkipDefault(fg, it.current_ + 1)]

FlatIterator_Done(it) == it.current_ = FlatGrid_num_cells

\* index = (1 << (3 * kBits)) - (end_ - current_)
FlatIterator_GetCellIndex(it) ==
    To3DIndex(FlatGrid_num_cells - (FlatGrid_num_cells - it.current_), kFlatBits)

FlatIterator_GetValue(fg, it) == fg.cells_[it.current_]

\* the default constructed nested iterator: current_ == end_ == nullptr
FlatIterator_null == [current_ |-> FlatGrid_num_cells]

RECURSIVE NestedAdvanceToValid(_, _, _)
\* NestedGrid::Iterator::AdvanceToValidNestedIterator.  The loop steps over
\* null handles without any effect, so the cursor goes straight to the next
\* position holding a handle (or to end_ when there is none).
NestedAdvanceToValid(ng, current, nested) ==
    LET ahead == { f \in DOMAIN ng.meta_cells_ : f >= current }
    IN  IF ahead = {}
        THEN [current_ |-> NestedGrid_num_cells, nested_iterator_ |-> nested]
        ELSE LET c == MinOf(ahead)
                 n == FlatIterator_new(ng.meta_cells_[c])
             IN  IF ~FlatIterator_Done(n)
                 THEN [current_ |-> c, nested_iterator_ |-> n]
                 ELSE NestedAdvanceToValid(ng, c + 1, n)

NestedIterator_new(ng) == NestedAdvanceToValid(ng, 0, FlatIterator_null)

NestedIterator_Done(it) == it.current_ = NestedGrid_num_cells

NestedIterator_Next(ng, it) ==
    LET n == FlatIterator_Next(ng.meta_cells_[it.current_], it.nested_iterator_)
    IN  IF ~FlatIterator_Done(n)
        THEN [it EXCEPT !.nested_iterator_ = n]
        ELSE NestedAdvanceToValid(ng, it.current_ + 1, n)

\* mutant: the meta index is not scaled by the size of the wrapped grid
NestedIterator_GetCellIndex_Unscaled(it) ==
    ArrAdd(To3DIndex(NestedGrid_num_cells - (NestedGrid_num_cells - it.current_),
                     kNestedBits),
           FlatIterator_GetCellIndex(it.nested_iterator_))

NestedIterator_GetCellIndex(it) ==
    ArrAdd(ArrMulScalar(To3DIndex(NestedGrid_num_cells
                                    - (NestedGrid_num_cells - it.current_),
                                  kNestedBits),
                        FlatGrid_grid_size),
           FlatIterator_GetCellIndex(it.nested_iterator_))

NestedIterator_GetValue(ng, it) ==
    FlatIterator_GetValue(ng.meta_cells_[it.current_], it.nested_iterator_)

NestedIterator_null ==
    [current_ |-> NestedGrid_num_cells, nested_iterator_ |-> FlatIterator_null]

RECURSIVE DynamicAdvanceToValid(_, _, _)
\* DynamicGrid::Iterator::AdvanceToValidNestedIterator, as for NestedGrid
DynamicAdvanceToValid(g, current, nested) ==
    LET ahead == { f \in DOMAIN g.meta_cells_ : f >= current }
    IN  IF ahead = {}
        THEN [current_ |-> g.meta_cells_size, nested_iterator_ |-> nested]
        ELSE LET c == MinOf(ahead)
                 n == NestedIterator_new(g.meta_cells_[c])
             IN  IF ~NestedIterator_Done(n)
                 THEN [current_ |-> c, nested_iterator_ |-> n]
                 ELSE DynamicAdvanceToValid(g, c + 1, n)

\* DynamicGrid::Iterator(dynamic_grid), i.e. begin()
DynamicIterator_new(g) == DynamicAdvanceToValid(g, 0, NestedIterator_null)

DynamicIterator_Done(g, it) == it.current_ = g.meta_cells_size

DynamicIterator_Next(g, it) ==
    LET n == NestedIterator_Next(g.meta_cells_[it.current_], it.nested_iterator_)
    IN  IF ~NestedIterator_Done(n)
        THEN [it EXCEPT !.nested_iterator_ = n]
        ELSE DynamicAdvanceToValid(g, it.current_ + 1, n)

\* mutant: the shifted index is returned, the origin offset is not removed
DynamicIterator_GetCellIndex_Shifted(g, it) ==
    ArrAdd(ArrMulScalar(To3DIndex(Pow2(3 * g.bits_)
                                    - (g.meta_cells_size - it.current_), g.bits_),
                        NestedGrid_grid_size),
           NestedIterator_GetCellIndex(it.nested_iterator_))

DynamicIterator_GetCellIndex(g, it) ==
    LET outer_index == Pow2(3 * g.bits_) - (g.meta_cells_size - it.current_)
        shifted_index ==
            ArrAdd(ArrMulScalar(To3DIndex(outer_index, g.bits_),
                                NestedGrid_grid_size),
                   NestedIterator_GetCellIndex(it.nested_iterator_))
    IN  ArrAddScalar(shifted_index,
                     0 - (Pow2(g.bits_ - 1) * NestedGrid_grid_size))

DynamicIterator_GetValue(g, it) ==
    NestedIterator_GetValue(g.meta_cells_[it.current_], it.nested_iterator_)

RECURSIVE IterateFrom(_, _)
\* for (it = begin(); it != end(); ++it) yield *it, where end() is begin()
\* after AdvanceToEnd() and operator!= compares the current_ cursors
IterateFrom(g, it) ==
    IF it.current_ = g.meta_cells_size
    THEN << >>
    ELSE << [index |-> DynamicIterator_GetCellIndex(g, it),
             value |-> DynamicIterator_GetValue(g, it)] >>
         \o IterateFrom(g, DynamicIterator_Next(g, it))

\* the sequence a range-based for loop over the grid sees
Iterate(g) == IterateFrom(g, DynamicIterator_new(g))

(***************************************************************************)
(* State.                                                                  *)
(***************************************************************************)
VARIABLES
    grid,       \* the DynamicGrid: bits_, meta_cells_ (and its size)
    aborted,    \* TRUE once a CHECK has failed: the process is gone
    call,       \* the last call made on the grid: operation, arguments, result
    written,    \* history: index -> the value last stored through mutable_value
    nops,       \* number of mutating calls made so far
    heap,       \* the point clouds allocated so far: heap[p] is the cloud of
                \* the PointCloudPtr p (a sequence of points)
    filter_calls, \* history: PointCloudPtr -> number of times the last
                \* InsertScan handed that cloud to the filter
    surround,   \* the cloud returned by the last GetSurroundedCloud: the
                \* points put into it when it was built
    surround_storage, \* where that cloud lives: NullCloud when it is an
                \* object of its own, p when it is the object heap[p]
    \* LaserMapping
    odometry_result_queue_, \* the queued results, oldest first; a result is
                \* the number of the AddLaserOdometryResult call that queued it
    g_should_exit,
    g_is_offline_mode,
    ros_ok,     \* what ros::ok() returns
    produced,   \* history: number of AddLaserOdometryResult calls so far
    run_pc,     \* where the thread running Run() is
    run_call,   \* the grid call of the frame that Run() is at: an index into RunGridCalls
    odom_result, \* the result Run() is working on, 0 before the first
    processed,  \* history: the results Run() took for processing, in order
    frame_ops,  \* history: the grid calls completed for odom_result
    in_grid,    \* the grid calls being executed right now
    dtor_pc,    \* where the thread running ~LaserMapping() is
    local_poses_,  \* GpsFusion: the timestamps of the local poses, in order
    fixed_points_, \* GpsFusion: the timestamps of the fixed points, in order
    gps_call    \* the last call made on the GpsFusion object and its outcome

mappingVars ==
    << odometry_result_queue_, g_should_exit, g_is_offline_mode, ros_ok,
       produced, run_pc, run_call, odom_result, processed, frame_ops, in_grid,
       dtor_pc >>

gpsVars == << local_poses_, fixed_points_, gps_call >>

vars == << grid, aborted, call, written, nops, heap, filter_calls, surround,
          surround_storage, mappingVars, gpsVars >>

hybridVars == << heap, filter_calls, surround, surround_storage >>

\* the values a caller of the generic grid stores (0 is ValueType())
Values == {0, 1, 2}

\* indices written in the generic grid: two cells of one FlatGrid, a second
\* FlatGrid of the same NestedGrid, and indices that need one growth,
\* several growths and every growth (each in another NestedGrid)
GridIndices ==
    { <<0, 0, 0>>, <<1, 2, 3>>, <<9, 0, 0>>,
      <<64, 0, 0>>, <<1000, 0, 0>>, <<-8192, 0, 8191>> }

\* indices read by the Read action
ReadIndices == { <<0, 0, 0>>, <<20000, 0, 0>> }

\* no GpsFusion object is looked at
NoGpsFusion ==
    /\ local_poses_ = << >>
    /\ fixed_points_ = << >>
    /\ gps_call = [op |-> "none"]

\* no LaserMapping object exists
NoLaserMapping ==
    /\ odometry_result_queue_ = << >>
    /\ g_should_exit = FALSE
    /\ g_is_offline_mode = FALSE
    /\ ros_ok = TRUE
    /\ produced = 0
    /\ run_pc = "none"
    /\ run_call = 1
    /\ odom_result = 0
    /\ processed = << >>
    /\ frame_ops = << >>
    /\ in_grid = {}
    /\ dtor_pc = "none"

InitGrid ==
    /\ grid = DynamicGrid_new
    /\ aborted = FALSE
    /\ call = [op |-> "new"]
    /\ written = << >>
    /\ nops = 0
    /\ heap = << >>
    /\ filter_calls = << >>
    /\ surround = << >>
    /\ surround_storage = DefaultValue
    /\ NoLaserMapping
    /\ NoGpsFusion

\* *grid.mutable_value(index) = v
Write(index, v) ==
    /\ ~aborted
    /\ nops < MaxOps
    /\ LET r == DynamicGrid_mutable_value(grid, index)
       IN  IF r.fatal
           THEN /\ aborted' = TRUE
                /\ grid' = r.grid
                /\ written' = written
           ELSE /\ aborted' = FALSE
                /\ grid' = StoreAt(r.grid, r.slot, v)
                /\ written' = (index :> v) @@ written
    /\ call' = [op |-> "mutable_value", index |-> index, value |-> v]
    /\ nops' = nops + 1
    /\ UNCHANGED hybridVars
    /\ UNCHANGED mappingVars
    /\ UNCHANGED gpsVars

\* mutant: the read goes through the write path, growing and allocating
Read_Allocating(index) ==
    /\ ~aborted
    /\ call' = [op |-> "value", index |-> index,
                value |-> DynamicGrid_value(grid, index)]
    /\ grid' = DynamicGrid_mutable_value(grid, index).grid
    /\ UNCHANGED << aborted, written, nops >>
    /\ UNCHANGED hybridVars
    /\ UNCHANGED mappingVars
    /\ UNCHANGED gpsVars

\* grid.value(index)
Read(index) ==
    /\ ~aborted
    /\ call' = [op |-> "value", index |-> index,
                value |-> DynamicGrid_value(grid, index)]
    /\ UNCHANGED << grid, aborted, written, nops >>
    /\ UNCHANGED hybridVars
    /\ UNCHANGED mappingVars
    /\ UNCHANGED gpsVars

NextGrid ==
    \/ \E index \in GridIndices, v \in Values : Write(index, v)
    \/ \E index \in ReadIndices : Read(index)

SpecGrid == InitGrid /\ [][NextGrid]_vars

(***************************************************************************)
(* The boundary of the addressable range: the diagonal indices             *)
(* (+-k, +-k, +-k) and indices on the axes at the hard limit.              *)
(***************************************************************************)
\* the hard limit of cell indexes: 2^(kMaxBits - 1) * 64 = 8192
HardLimit == Pow2(kMaxBits - 1) * NestedGrid_grid_size

SymKs == {0, 64, HardLimit - 1, HardLimit}

Signs == {-1, 1}

SymIndices ==
    { << sx * k, sy * k, sz * k >> : sx \in Signs, sy \in Signs, sz \in Signs,
                                     k \in SymKs }

AxisIndices ==
    { << HardLimit - 1, 0, 0 >>, << HardLimit, 0, 0 >>,
      << 0, 0 - HardLimit, 0 >>, << 0, 0, 0 - HardLimit - 1 >> }

RangeIndices == SymIndices \cup AxisIndices

RangeReadIndices ==
    { << HardLimit, HardLimit, HardLimit >>,
      << 0 - HardLimit, 0 - HardLimit, 0 - HardLimit >>,
      << HardLimit - 1, 1 - HardLimit, HardLimit - 1 >>,
      << 64, 64, -64 >> }

NextRange ==
    \/ /\ nops < MaxRangeOps
       \* the n-th write stores the value n, so that every write is told apart
       /\ \E index \in RangeIndices : Write(index, nops + 1)
    \/ \E index \in RangeReadIndices : Read(index)

SpecRange == InitGrid /\ [][NextRange]_vars

(***************************************************************************)
(* Notions used to state the properties.                                   *)
(***************************************************************************)
\* every component of the index lies in [-8192, 8191]
WithinHardLimit(index) ==
    \A i \in 1 .. 3 : 0 - HardLimit <= index[i] /\ index[i] <= HardLimit - 1

\* indices looked at by the state predicates: the written ones, the read
\* ones and neighbours that are never written
ProbeIndices ==
    GridIndices \cup ReadIndices
    \cup { <<2, 2, 3>>, <<-1, -1, -1>>, <<-1000, 0, 0>>, <<0, -65, 0>>, <<8, 8, 8>>, <<63, 63, 63>>, <<-64, -64, -64>>,
           <<-65, 0, 0>>, <<0, 0, 64>>, <<8191, 0, -8192>>,
           <<8192, 0, 0>>, <<0, -8193, 0>> }

\* the value last stored at the index, the default when nothing was stored
LastStored(index) ==
    IF index \in DOMAIN written THEN written[index] ELSE DefaultValue

\* the indices that currently hold a non-default stored value
StoredNonDefault == { index \in DOMAIN written : written[index] # DefaultValue }

\* <<outer flat, nested flat, inner flat>> of the slot of an in-range index
CellPath(g, index) ==
    LET shifted == ShiftedIndex(g, index)
        outer == GetMetaIndex(shifted, NestedGrid_grid_size)
        in_nested == ArrSub(shifted, ArrMulScalar(outer, NestedGrid_grid_size))
        nested == GetMetaIndex(in_nested, FlatGrid_grid_size)
        in_flat == ArrSub(in_nested, ArrMulScalar(nested, FlatGrid_grid_size))
    IN  << ToFlatIndex(outer, g.bits_), ToFlatIndex(nested, kNestedBits),
           ToFlatIndex(in_flat, kFlatBits) >>

\* lexicographic order on paths
PathLess(p, q) ==
    \/ p[1] < q[1]
    \/ p[1] = q[1] /\ p[2] < q[2]
    \/ p[1] = q[1] /\ p[2] = q[2] /\ p[3] < q[3]

(***************************************************************************)
(* C1.  For writes at indices within [-8192, 8191], value(idx) returns the *)
(* value most recently stored at idx, however many Grow steps writes to    *)
(* other indices caused in between.                                        *)
(***************************************************************************)
C1_ReadsLastWrite ==
    \A index \in DOMAIN written :
        WithinHardLimit(index) => DynamicGrid_value(grid, index) = written[index]

\* (0,0,0) was written at bits_ = 1, then one write grew the grid to bits_ = 8
C1_Witness ==
    /\ nops = 2
    /\ call.op = "mutable_value" /\ call.index = <<-8192, 0, 8191>>
    /\ grid.bits_ = kMaxBits
    /\ <<0, 0, 0>> \in DOMAIN written /\ written[<<0, 0, 0>>] = 2

(***************************************************************************)
(* C2.  value(idx) is the default for every index at which no non-default  *)
(* value has been stored: outside the extent, in an unallocated meta cell, *)
(* and in a never-written cell of an allocated FlatGrid.                   *)
(***************************************************************************)
C2_DefaultRead ==
    \A index \in ProbeIndices :
        LastStored(index) = DefaultValue =>
            DynamicGrid_value(grid, index) = DefaultValue

\* only (1,2,3) holds a value: (0,0,0) is a never-written cell of its
\* FlatGrid, (9,0,0) lies in a null FlatGrid handle, (-1,-1,-1) in a null
\* NestedGrid handle and (64,0,0) outside the extent; (0,0,0) was just read
C2_Witness ==
    /\ DOMAIN written = { <<1, 2, 3>> } /\ written[<<1, 2, 3>>] = 1
    /\ grid.bits_ = kInitialBits
    /\ call = [op |-> "value", index |-> <<0, 0, 0>>, value |-> DefaultValue]

(***************************************************************************)
(* C5.  value never changes the grid: a read, in range or not, leaves      *)
(* bits_, the meta-cell vector and every sub-grid as they were; only       *)
(* mutable_value grows or allocates.                                       *)
(***************************************************************************)
C5_ReadStep == call'.op = "value" => grid' = grid

C5_ReadLeavesGrid == [][C5_ReadStep]_vars

\* an out-of-range index was read on a grid that holds something
C5_Witness ==
    /\ call.op = "value" /\ call.index = <<20000, 0, 0>>
    /\ grid.bits_ = kInitialBits
    /\ written # << >>

(***************************************************************************)
(* C6.  Iteration from begin() to end() yields exactly one entry for every *)
(* cell whose value differs from the default and nothing else; the index   *)
(* it yields is the signed coordinate of the cell, so that value(index) is *)
(* the yielded value.                                                      *)
(***************************************************************************)
C6_IterationComplete ==
    LET seq == Iterate(grid)
    IN  /\ \A i \in 1 .. Len(seq) :
              /\ ~IsDefaultValue(seq[i].value)
              /\ DynamicGrid_value(grid, seq[i].index) = seq[i].value
              /\ seq[i].index \in StoredNonDefault
              /\ seq[i].value = written[seq[i].index]
        /\ \A index \in StoredNonDefault :
              \E i \in 1 .. Len(seq) : seq[i].index = index
        /\ \A i, j \in 1 .. Len(seq) : i # j => seq[i].index # seq[j].index

\* after growth, two cells are yielded and a cell that was written with the
\* default value is skipped
C6_Witness ==
    /\ Len(Iterate(grid)) = 2
    /\ grid.bits_ > kInitialBits
    /\ \E index \in DOMAIN written : written[index] = DefaultValue

(***************************************************************************)
(* C7.  The non-default cells are yielded in ascending order of the outer  *)
(* meta cell's z-major flat index, then of the NestedGrid meta cell's,     *)
(* then of the flat index inside the FlatGrid.                             *)
(***************************************************************************)
C7_IterationOrder ==
    LET seq == Iterate(grid)
    IN  \A i \in 1 .. Len(seq) - 1 :
            PathLess(CellPath(grid, seq[i].index), CellPath(grid, seq[i + 1].index))

\* three cells are yielded, and the cell written last comes first
C7_Witness ==
    /\ Len(Iterate(grid)) = 3
    /\ call.op = "mutable_value"
    /\ Iterate(grid)[1].index = call.index
    /\ \E i \in {2, 3} :
          CellPath(grid, Iterate(grid)[i].index)[1] = CellPath(grid, call.index)[1]

(***************************************************************************)
(* C3.  Symmetric addressability.  As claimed: for every k <= 8192 and     *)
(* every sign combination a write at (+-k, +-k, +-k) succeeds and is read  *)
(* back.  A write with a component +8192 ends in the failed CHECK of Grow. *)
(***************************************************************************)
C3_Original ==
    (call.op = "mutable_value" /\ call.index \in SymIndices) =>
        (~aborted /\ DynamicGrid_value(grid, call.index) = call.value)

(***************************************************************************)
(* C3 as amended: for every k <= 8192 and every sign combination,          *)
(* value((+-k, +-k, +-k)) returns the default while nothing is stored      *)
(* there and leaves the grid as it was; a write at such an index succeeds  *)
(* and is read back afterwards when no component is +8192 (every sign      *)
(* combination for k <= 8191, and -8192 components).                       *)
(***************************************************************************)
C3_SymStep ==
    /\ (call'.op = "value" /\ call'.index \in SymIndices) =>
           /\ grid' = grid
           /\ call'.value = LastStored(call'.index)
    /\ (call'.op = "mutable_value" /\ call'.index \in SymIndices
           /\ WithinHardLimit(call'.index)) =>
           /\ ~aborted'
           /\ DynamicGrid_value(grid', call'.index) = call'.value
    /\ \A index \in SymIndices :
           DynamicGrid_value(grid', index) =
               IF index \in DOMAIN written' THEN written'[index] ELSE DefaultValue

C3_SymmetricAddressable == [][C3_SymStep]_vars

\* (8191, 8191, 8191) was written, then (-8192, -8192, -8192)
C3_Witness ==
    /\ ~aborted
    /\ call.op = "mutable_value"
    /\ call.index = << 0 - HardLimit, 0 - HardLimit, 0 - HardLimit >>
    /\ DynamicGrid_value(grid, << HardLimit - 1, HardLimit - 1, HardLimit - 1 >>) = 1
    /\ DynamicGrid_value(grid, call.index) = 2

(***************************************************************************)
(* C4.  A write at ((1 << 13) - 1, 0, 0) succeeds and a write at           *)
(* (1 << 13, 0, 0) ends in the failed CHECK_LE(new_bits, 8); a write       *)
(* returns normally exactly when every component of its index lies in      *)
(* [-8192, 8191], i.e. when it does not need bits_ > 8.                    *)
(***************************************************************************)
C4_HardCap ==
    call.op = "mutable_value" =>
        /\ aborted <=> ~WithinHardLimit(call.index)
        /\ call.index = << Pow2(13) - 1, 0, 0 >> => ~aborted
        /\ call.index = << Pow2(13), 0, 0 >> => aborted
        /\ grid.bits_ <= kMaxBits

\* the write at (8191, 0, 0) returned, the write at (8192, 0, 0) aborted
C4_Witness ==
    /\ aborted
    /\ call.op = "mutable_value" /\ call.index = << Pow2(13), 0, 0 >>
    /\ << Pow2(13) - 1, 0, 0 >> \in DOMAIN written

(***************************************************************************)
(* HybridGridBase<PointCloudPtr> and HybridGridImpl.                       *)
(*                                                                         *)
(* A point is a tuple <<x, y, z>> of whole numbers of 1/PointUnitsPerMetre *)
(* metres; single-precision rounding of the coordinates is not modelled.   *)
(* The cell value is a PointCloudPtr: 0 is the null handle, p > 0 is the   *)
(* cloud heap[p].                                                          *)
(***************************************************************************)
\* resolution_, in point units
ResolutionUnits == kResolution * PointUnitsPerMetre

\* mutant: to nearest, halfway cases to the even neighbour
RoundToInt_HalfEven(num, den) ==
    LET q == (2 * num + den) \div (2 * den)
    IN  IF (2 * num + den) % (2 * den) = 0 /\ q % 2 # 0 THEN q - 1 ELSE q

\* std::lround(num / den) for den > 0: to nearest, halfway cases away from zero
RoundToInt(num, den) ==
    IF num >= 0
    THEN (2 * num + den) \div (2 * den)
    ELSE 0 - ((2 * (0 - num) + den) \div (2 * den))

GetCellIndex(point) ==
    << RoundToInt(point[1], ResolutionUnits),
       RoundToInt(point[2], ResolutionUnits),
       RoundToInt(point[3], ResolutionUnits) >>

\* mutant: no point is skipped
NormExceedsDist_Never(point) == FALSE

\* point.getVector3fMap().norm() > kDist
NormExceedsDist(point) ==
    point[1] * point[1] + point[2] * point[2] + point[3] * point[3]
        > (kDist * PointUnitsPerMetre) * (kDist * PointUnitsPerMetre)

\* pose * point for a pose that turns by quarter turns about z and then
\* translates: p |-> R p + t
TransformPoint(pose, point) ==
    LET r == CASE pose.quarter_turns = 0 -> point
               [] pose.quarter_turns = 1 -> << 0 - point[2], point[1], point[3] >>
               [] pose.quarter_turns = 2 -> << 0 - point[1], 0 - point[2], point[3] >>
               [] pose.quarter_turns = 3 -> << point[2], 0 - point[1], point[3] >>
    IN  ArrAdd(r, pose.translation)

\* the null PointCloudPtr
NullCloud == DefaultValue

\* mutant: a new cloud is allocated for every point, also when the cell
\* already holds one
AppendPoint_AlwaysReset(st, point) ==
    IF st.fatal
    THEN st
    ELSE LET r == DynamicGrid_mutable_value(st.grid, GetCellIndex(point))
         IN  IF r.fatal
             THEN [fatal |-> TRUE, grid |-> r.grid, heap |-> st.heap]
             ELSE [fatal |-> FALSE,
                   grid |-> StoreAt(r.grid, r.slot, Len(st.heap) + 1),
                   heap |-> Append(st.heap, << point >>)]

\* mutant: the point that finds a null handle allocates the cloud and is
\* not appended to it
AppendPoint_NewCloudStaysEmpty(st, point) ==
    IF st.fatal
    THEN st
    ELSE LET r == DynamicGrid_mutable_value(st.grid, GetCellIndex(point))
         IN  IF r.fatal
             THEN [fatal |-> TRUE, grid |-> r.grid, heap |-> st.heap]
             ELSE IF LoadAt(r.grid, r.slot) = NullCloud
                  THEN [fatal |-> FALSE,
                        grid |-> StoreAt(r.grid, r.slot, Len(st.heap) + 1),
                        heap |-> Append(st.heap, << >>)]
                  ELSE [fatal |-> FALSE,
                        grid |-> r.grid,
                        heap |-> [st.heap EXCEPT ![LoadAt(r.grid, r.slot)] =
                                     Append(@, point)]]

\* one round of the first loop of InsertScan on st = [fatal, grid, heap]
AppendPoint(st, point) ==
    IF st.fatal
    THEN st
    ELSE LET r == DynamicGrid_mutable_value(st.grid, GetCellIndex(point))
         IN  IF r.fatal
             THEN [fatal |-> TRUE, grid |-> r.grid, heap |-> st.heap]
             ELSE LET was_null == LoadAt(r.grid, r.slot) = NullCloud
                      \* cloud_in_grid.reset(new PointCloud)
                      ptr == IF was_null THEN Len(st.heap) + 1
                             ELSE LoadAt(r.grid, r.slot)
                      grid1 == IF was_null THEN StoreAt(r.grid, r.slot, ptr)
                               ELSE r.grid
                      heap1 == IF was_null THEN Append(st.heap, << >>)
                               ELSE st.heap
                  IN  [fatal |-> FALSE,
                       grid |-> grid1,
                       \* cloud_in_grid->push_back(point)
                       heap |-> [heap1 EXCEPT ![ptr] = Append(@, point)]]

RECURSIVE AppendScanFrom(_, _, _)
AppendScanFrom(st, scan, i) ==
    IF i > Len(scan)
    THEN st
    ELSE AppendScanFrom(AppendPoint(st, scan[i]), scan, i + 1)

\* the first loop of InsertScan: every point goes into the cloud of its cell
AppendScan(g, h, scan) ==
    AppendScanFrom([fatal |-> FALSE, grid |-> g, heap |-> h], scan, 1)

\* mutant: a container that keeps duplicates (a vector, a multiset)
UnorderedSetInsert_KeepsDuplicates(container, x) ==
    IF x \in DOMAIN container
    THEN [container EXCEPT ![x] = @ + 1]
    ELSE (x :> 1) @@ container

\* boost::unordered_set<PointCloudPtr>::insert(x).  The container is kept
\* as the function from its elements to the number of times each is held,
\* which insert never lets exceed 1.
UnorderedSetInsert(container, x) ==
    IF x \in DOMAIN container THEN container ELSE (x :> 1) @@ container

RECURSIVE InsertedGridsFrom(_, _, _, _)
InsertedGridsFrom(g, scan, i, container) ==
    IF i > Len(scan)
    THEN container
    ELSE LET cloud_in_grid == DynamicGrid_value(g, GetCellIndex(scan[i]))
         IN  InsertedGridsFrom(g, scan, i + 1,
                 IF cloud_in_grid # NullCloud
                 THEN UnorderedSetInsert(container, cloud_in_grid)
                 ELSE container)

\* the second loop of InsertScan: inserted_grids
InsertedGrids(g, scan) == InsertedGridsFrom(g, scan, 1, << >>)

\* pcl::Filter::filter(cloud) applied in place.  The filter is the
\* caller's; what it returns is a choice among the downsampled versions of
\* its input enumerated here: the empty cloud, the first point alone and the
\* whole cloud.
FilterOutputs(cloud) ==
    { SubSeq(cloud, 1, n) : n \in {0, 1, Len(cloud)} \cap (0 .. Len(cloud)) }

\* the heaps the third loop of InsertScan can leave: the filter has run on
\* each held cloud once per time it is held (its outputs are closed under
\* running it again), every other cloud is as it was
FilteredHeaps(h, container) ==
    LET held == DOMAIN container
        outs == UNION { FilterOutputs(h[p]) : p \in held }
        choices == { f \in [held -> outs] : \A p \in held : f[p] \in FilterOutputs(h[p]) }
    IN  { [p \in 1 .. Len(h) |-> IF p \in held THEN f[p] ELSE h[p]] : f \in choices }

(***************************************************************************)
(* Inputs of the hybrid grid.                                              *)
(***************************************************************************)
\* scans handed to InsertScan (map frame, point units): the empty scan, one
\* point, two points of one cell, a point halfway between two cells, a
\* point whose cell needs growth, and a point beyond the hard limit
MapScans ==
    { << >>,
      << <<0, 0, 0>> >>,
      << <<1, -1, 0>>, <<0, 0, 0>> >>,
      << <<kResolution * PointUnitsPerMetre + (kResolution * PointUnitsPerMetre) \div 2, 0, 0>> >>,
      << <<1, -1, 0>>, <<-70 * kResolution * PointUnitsPerMetre, 0, 0>> >>,
      << <<0, 0, 0>>, <<HardLimit * kResolution * PointUnitsPerMetre, 0, 0>> >> }

\* scans handed to GetSurroundedCloud (sensor frame, point units)
QueryScans ==
    { << >>,
      << <<0, 0, 0>> >>,
      << <<0, 0, 0>>, <<1, 0, 0>>,
         <<kResolution * PointUnitsPerMetre + (kResolution * PointUnitsPerMetre) \div 2, 0, 0>> >>,
      << <<(kDist + 1) * PointUnitsPerMetre, 0, 0>>, <<0, kDist * PointUnitsPerMetre, 0>> >> }

Poses ==
    { [quarter_turns |-> 0, translation |-> <<0, 0, 0>>],
      [quarter_turns |-> 1,
       translation |-> <<-70 * kResolution * PointUnitsPerMetre, 0, 0>>],
      \* sends the point at kDist + 1 metres on the x axis to the origin
      [quarter_turns |-> 3,
       translation |-> <<0, (kDist + 1) * PointUnitsPerMetre, 0>>] }

(***************************************************************************)
(* Operations of HybridGridImpl.                                           *)
(***************************************************************************)
InitHybrid ==
    /\ grid = DynamicGrid_new
    /\ aborted = FALSE
    /\ call = [op |-> "new"]
    /\ written = << >>
    /\ nops = 0
    /\ heap = << >>
    /\ filter_calls = << >>
    /\ surround = << >>
    /\ surround_storage = DefaultValue
    /\ NoLaserMapping
    /\ NoGpsFusion

\* mutant: no test for the empty scan, and the filter runs on the cloud of
\* every cell of the grid instead of the cells the scan hit
InsertScan_FiltersEveryCell(scan) ==
    /\ ~aborted
    /\ call' = [op |-> "InsertScan", scan |-> scan]
    /\ IF scan = << >> THEN nops' = nops
       ELSE nops < MaxScans /\ nops' = nops + 1
    /\ LET a == AppendScan(grid, heap, scan)
       IN  IF a.fatal
           THEN /\ aborted' = TRUE
                /\ grid' = a.grid
                /\ heap' = a.heap
                /\ filter_calls' = << >>
           ELSE LET every == [p \in 1 .. Len(a.heap) |-> 1]
                IN  /\ aborted' = FALSE
                    /\ grid' = a.grid
                    /\ heap' \in FilteredHeaps(a.heap, every)
                    /\ filter_calls' = every
    /\ UNCHANGED << written, surround, surround_storage >>
    /\ UNCHANGED mappingVars
    /\ UNCHANGED gpsVars

\* HybridGridImpl::InsertScan(scan, filter)
InsertScan(scan) ==
    /\ ~aborted
    /\ call' = [op |-> "InsertScan", scan |-> scan]
    /\ IF scan = << >>
       THEN /\ filter_calls' = << >>
            /\ UNCHANGED << grid, heap, aborted, nops >>
       ELSE /\ nops < MaxScans
            /\ nops' = nops + 1
            /\ LET a == AppendScan(grid, heap, scan)
               IN  IF a.fatal
                   THEN /\ aborted' = TRUE
                        /\ grid' = a.grid
                        /\ heap' = a.heap
                        /\ filter_calls' = << >>
                   ELSE LET inserted_grids == InsertedGrids(a.grid, scan)
                        IN  /\ aborted' = FALSE
                            /\ grid' = a.grid
                            /\ heap' \in FilteredHeaps(a.heap, inserted_grids)
                            /\ filter_calls' = inserted_grids
    /\ UNCHANGED << written, surround, surround_storage >>
    /\ UNCHANGED mappingVars
    /\ UNCHANGED gpsVars

RECURSIVE SurroundGridsFrom(_, _, _, _, _)
SurroundGridsFrom(g, scan, pose, i, container) ==
    IF i > Len(scan)
    THEN container
    ELSE IF NormExceedsDist(scan[i])
         THEN SurroundGridsFrom(g, scan, pose, i + 1, container)
         ELSE LET new_point == TransformPoint(pose, scan[i])
                  cloud_in_grid == DynamicGrid_value(g, GetCellIndex(new_point))
              IN  SurroundGridsFrom(g, scan, pose, i + 1,
                      IF cloud_in_grid # NullCloud
                      THEN UnorderedSetInsert(container, cloud_in_grid)
                      ELSE container)

\* the orders in which the held clouds can be visited: the iteration order
\* of the unordered set is the implementation's choice
VisitOrders(container) ==
    LET held == DOMAIN container
        n == Cardinality(held)
    IN  { o \in [1 .. n -> held] : \A i, j \in 1 .. n : i # j => o[i] # o[j] }

RECURSIVE ConcatClouds(_, _, _, _)
\* *cloud_surround += *cloud_in_grid for each held cloud, in visiting order
ConcatClouds(h, container, order, i) ==
    IF i > Len(order)
    THEN << >>
    ELSE LET one == h[order[i]]
             times == container[order[i]]
         IN  (IF times = 1 THEN one ELSE one \o one)
             \o ConcatClouds(h, container, order, i + 1)

\* mutant: when a single cloud is held, that cloud itself is handed out
NewSurroundCloud_SharesSingle(h, container, order) ==
    IF Len(order) = 1
    THEN [storage |-> order[1], points |-> h[order[1]]]
    ELSE [storage |-> NullCloud,
          points |-> ConcatClouds(h, container, order, 1)]

\* PointCloudPtr cloud_surround(new PointCloud) and the second loop: a new
\* object that receives a copy of the points of each held cloud
NewSurroundCloud(h, container, order) ==
    [storage |-> NullCloud,
     points |-> ConcatClouds(h, container, order, 1)]

\* mutant: the cell of the first point is looked up through mutable_value
GetSurroundedCloud_Allocating(scan, pose) ==
    /\ ~aborted
    /\ call' = [op |-> "GetSurroundedCloud", scan |-> scan, pose |-> pose]
    /\ LET inserted_grids == SurroundGridsFrom(grid, scan, pose, 1, << >>)
       IN  \E order \in VisitOrders(inserted_grids) :
               LET cloud_surround == NewSurroundCloud(heap, inserted_grids, order)
               IN  /\ surround' = cloud_surround.points
                   /\ surround_storage' = cloud_surround.storage
    /\ grid' = IF scan = << >> \/ NormExceedsDist(scan[1])
               THEN grid
               ELSE DynamicGrid_mutable_value(
                        grid, GetCellIndex(TransformPoint(pose, scan[1]))).grid
    /\ UNCHANGED << heap, aborted, nops, written, filter_calls >>
    /\ UNCHANGED mappingVars
    /\ UNCHANGED gpsVars

\* HybridGridImpl::GetSurroundedCloud(scan, pose)
GetSurroundedCloud(scan, pose) ==
    /\ ~aborted
    /\ call' = [op |-> "GetSurroundedCloud", scan |-> scan, pose |-> pose]
    /\ LET inserted_grids == SurroundGridsFrom(grid, scan, pose, 1, << >>)
       IN  \E order \in VisitOrders(inserted_grids) :
               LET cloud_surround == NewSurroundCloud(heap, inserted_grids, order)
               IN  /\ surround' = cloud_surround.points
                   /\ surround_storage' = cloud_surround.storage
    /\ UNCHANGED << grid, heap, aborted, nops, written, filter_calls >>
    /\ UNCHANGED mappingVars
    /\ UNCHANGED gpsVars

NextHybrid ==
    \/ \E scan \in MapScans : InsertScan(scan)
    \/ \E scan \in QueryScans, pose \in Poses : GetSurroundedCloud(scan, pose)

SpecHybrid == InitHybrid /\ [][NextHybrid]_vars

(***************************************************************************)
(* Notions used to state the properties of the hybrid grid.                *)
(***************************************************************************)
\* the cloud of the cell at index: empty when the handle is null
CloudAt(g, h, index) ==
    IF DynamicGrid_value(g, index) = NullCloud
    THEN << >>
    ELSE h[DynamicGrid_value(g, index)]

\* the points of the scan that fall into the cell, in scan order
PointsOfCell(scan, index) ==
    SelectSeq(scan, LAMBDA point : GetCellIndex(point) = index)

\* the cells hit by the scan
CellsOfScan(scan) == { GetCellIndex(scan[i]) : i \in 1 .. Len(scan) }

\* the indices of the cells that hold a non-null handle
OccupiedCells(g) ==
    LET cells == Iterate(g)
    IN  { cells[i].index : i \in 1 .. Len(cells) }

\* cells looked at besides the occupied ones and those of the scans
HybridProbeCells ==
    { <<0, 0, 0>>, <<1, 0, 0>>, <<2, 0, 0>>, <<-70, 0, 0>>, <<0, 1, 0>>,
      <<-1, 0, 0>>, <<63, 63, 63>>, <<-129, 0, 0>>, <<HardLimit, 0, 0>> }

RECURSIVE SumLen(_, _)
\* number of points held by the clouds h[1 .. n]
SumLen(h, n) == IF n = 0 THEN 0 ELSE Len(h[n]) + SumLen(h, n - 1)

(***************************************************************************)
(* C8.  InsertScan appends every point p of the scan to the cloud of       *)
(* exactly one cell, GetCellIndex(p), allocating a fresh cloud where the   *)
(* handle was null: before the filter runs, each cell's cloud is its       *)
(* previous cloud followed by the scan points of that cell, and no other   *)
(* cell receives a point.  (Stated of the calls that return.)              *)
(***************************************************************************)
C8_Step ==
    (call'.op = "InsertScan" /\ ~aborted') =>
        \A a \in { AppendScan(grid, heap, call'.scan) } :
        \A after \in { OccupiedCells(a.grid) } :
        \A hit \in { CellsOfScan(call'.scan) } :
            /\ ~a.fatal
            /\ hit \subseteq after
            /\ \A index \in after \cup HybridProbeCells :
                  LET old == DynamicGrid_value(grid, index)
                      new == DynamicGrid_value(a.grid, index)
                      old_cloud == IF old = NullCloud THEN << >> ELSE heap[old]
                      new_cloud == IF new = NullCloud THEN << >> ELSE a.heap[new]
                  IN  /\ new_cloud = old_cloud \o PointsOfCell(call'.scan, index)
                      /\ old # NullCloud => new = old
                      /\ (old = NullCloud /\ index \in hit) =>
                            new \in (Len(heap) + 1) .. Len(a.heap)
                      /\ (old = NullCloud /\ index \notin hit) => new = NullCloud
            \* one cloud per occupied cell, one cell per point
            /\ Len(a.heap) = Cardinality(after)
            /\ Len(a.heap) = Len(heap)
                  + Cardinality({ index \in hit :
                                    DynamicGrid_value(grid, index) = NullCloud })
            /\ SumLen(a.heap, Len(a.heap))
                  = SumLen(heap, Len(heap)) + Len(call'.scan)
            \* the filter then runs on what the first loop left
            /\ grid' = a.grid
            /\ Len(heap') = Len(a.heap)
            /\ \A p \in 1 .. Len(a.heap) : heap'[p] \in FilterOutputs(a.heap[p])

C8_AppendsToOwnCell == [][C8_Step]_vars

\* a second scan put two points into the cell (0,0,0), which held a cloud;
\* the filter kept everything
C8_Witness ==
    /\ ~aborted
    /\ nops = 2
    /\ call.op = "InsertScan"
    /\ call.scan = << <<1, -1, 0>>, <<0, 0, 0>> >>
    /\ Len(heap) = 1
    /\ heap[1] = << <<0, 0, 0>>, <<1, -1, 0>>, <<0, 0, 0>> >>

(***************************************************************************)
(* C9.  One InsertScan call applies the filter exactly once to the cloud   *)
(* of each distinct cell hit by a scan point, also when several points hit *)
(* the same cell, and to no other cloud: the clouds of the cells that are  *)
(* not hit are unchanged.                                                  *)
(***************************************************************************)
C9_Step ==
    (call'.op = "InsertScan" /\ ~aborted') =>
        LET scan == call'.scan
            hit == { DynamicGrid_value(grid', index) : index \in CellsOfScan(scan) }
        IN  /\ NullCloud \notin hit
            /\ Cardinality(hit) = Cardinality(CellsOfScan(scan))
            /\ DOMAIN filter_calls' = hit
            /\ \A p \in hit : filter_calls'[p] = 1
            /\ \A p \in 1 .. Len(heap) : p \notin hit => heap'[p] = heap[p]

C9_FilterOncePerCell == [][C9_Step]_vars

\* two clouds exist; the last scan put two points into the cell of cloud 1
\* only, and the filter ran once, on cloud 1, leaving one point
C9_Witness ==
    /\ ~aborted
    /\ call.op = "InsertScan"
    /\ call.scan = << <<1, -1, 0>>, <<0, 0, 0>> >>
    /\ Len(heap) = 2
    /\ DOMAIN filter_calls = {1}
    /\ Len(heap[1]) = 1
    /\ heap[2] # << >>

(***************************************************************************)
(* C10.  Across InsertScan and GetSurroundedCloud calls, growth included,  *)
(* a cell whose cloud handle is non-null keeps that handle; a cloud that   *)
(* held points becomes empty only in an InsertScan whose filter ran on it. *)
(***************************************************************************)
C10_Step ==
    /\ grid' # grid =>
          \A index \in OccupiedCells(grid) \cup HybridProbeCells :
              DynamicGrid_value(grid, index) # NullCloud =>
                  DynamicGrid_value(grid', index) = DynamicGrid_value(grid, index)
    /\ Len(heap') >= Len(heap)
    /\ \A p \in 1 .. Len(heap) :
          (heap[p] # << >> /\ heap'[p] = << >>) =>
              (call'.op = "InsertScan" /\ p \in DOMAIN filter_calls')

C10_CellsPersist == [][C10_Step]_vars

\* the cell (0,0,0) was occupied by the first scan; the second scan grew the
\* grid and its filter emptied the cloud of (0,0,0), whose handle stays
C10_Witness ==
    /\ ~aborted
    /\ nops = 2
    /\ call.op = "InsertScan"
    /\ grid.bits_ = kInitialBits + 1
    /\ DynamicGrid_value(grid, <<0, 0, 0>>) = 1
    /\ heap[1] = << >>
    /\ Len(heap) = 2

(***************************************************************************)
(* C11.  GetSurroundedCloud never modifies the grid: for any scan and      *)
(* pose, also a pose that sends points outside the current extent, bits_,  *)
(* every sub-grid handle and every cell cloud are after the call what they *)
(* were before it (no growth, no allocation).                              *)
(***************************************************************************)
C11_Step ==
    call'.op = "GetSurroundedCloud" =>
        /\ grid'.bits_ = grid.bits_
        /\ grid'.meta_cells_size = grid.meta_cells_size
        /\ grid'.meta_cells_ = grid.meta_cells_
        /\ heap' = heap
        /\ ~aborted'

C11_SurroundReadsOnly == [][C11_Step]_vars

\* the points of the scan that GetSurroundedCloud looks up, transformed
LookedUpCells(scan, pose) ==
    { GetCellIndex(TransformPoint(pose, scan[i])) :
          i \in { j \in 1 .. Len(scan) : ~NormExceedsDist(scan[j]) } }

\* a call on a populated grid of bits_ = 1 whose pose sent a point to a cell
\* outside the extent
C11_Witness ==
    /\ call.op = "GetSurroundedCloud"
    /\ grid.bits_ = kInitialBits
    /\ Len(heap) >= 1
    /\ \E index \in LookedUpCells(call.scan, call.pose) :
           OutOfRange(grid, ShiftedIndex(grid, index))

(***************************************************************************)
(* C12.  GetSurroundedCloud returns the concatenation, each taken exactly  *)
(* once, of the clouds of the distinct cells with a cloud among the cells  *)
(* GetCellIndex(pose * p) of the scan points p whose norm before the       *)
(* transform is at most kDist; the points of larger norm are skipped.  The *)
(* size of the result is the sum of the sizes of those clouds.             *)
(***************************************************************************)
\* |point| <= kDist, in point units
WithinDist(point) ==
    point[1] * point[1] + point[2] * point[2] + point[3] * point[3]
        <= (kDist * PointUnitsPerMetre) * (kDist * PointUnitsPerMetre)

\* the clouds of the cells touched by the retained points of the scan
TouchedClouds(g, scan, pose) ==
    { DynamicGrid_value(g, GetCellIndex(TransformPoint(pose, scan[i]))) :
          i \in { j \in 1 .. Len(scan) : WithinDist(scan[j]) } } \ { NullCloud }

\* the ways of listing the members of S, each once
OrdersOf(S) ==
    { o \in [1 .. Cardinality(S) -> S] :
          \A i, j \in 1 .. Cardinality(S) : i # j => o[i] # o[j] }

RECURSIVE Concatenation(_, _, _)
\* h[order[i]] \o ... \o h[order[Len(order)]]
Concatenation(h, order, i) ==
    IF i > Len(order) THEN << >>
    ELSE h[order[i]] \o Concatenation(h, order, i + 1)

RECURSIVE SumLenOver(_, _)
\* the number of points held by the clouds h[p], p \in S
SumLenOver(h, S) ==
    IF S = {} THEN 0
    ELSE LET p == CHOOSE q \in S : TRUE
         IN  Len(h[p]) + SumLenOver(h, S \ {p})

C12_Step ==
    call'.op = "GetSurroundedCloud" =>
        \A touched \in { TouchedClouds(grid, call'.scan, call'.pose) } :
            /\ \E order \in OrdersOf(touched) :
                   surround' = Concatenation(heap, order, 1)
            /\ Len(surround') = SumLenOver(heap, touched)

C12_SurroundIsUnionOnce == [][C12_Step]_vars

\* the scan had two points in the cell (0,0,0) and one in the cell (2,0,0);
\* both cells hold points and the result holds each cloud once
C12_Witness ==
    /\ call.op = "GetSurroundedCloud"
    /\ call.pose.quarter_turns = 0
    /\ Len(call.scan) = 3
    /\ Len(heap) = 2
    /\ Len(heap[1]) = 2
    /\ Len(heap[2]) = 1
    /\ DynamicGrid_value(grid, <<0, 0, 0>>) = 1
    /\ DynamicGrid_value(grid, <<2, 0, 0>>) = 2
    /\ Len(surround) = 3

(***************************************************************************)
(* C13.  The cloud returned by GetSurroundedCloud is an independent copy:  *)
(* it shares no storage with a cell cloud, and a later InsertScan, which   *)
(* appends to and filters cell clouds, does not change it.                 *)
(***************************************************************************)
\* what the holder of the returned cloud reads in it
ReturnedCloud ==
    IF surround_storage = NullCloud THEN surround ELSE heap[surround_storage]

C13_Step ==
    /\ surround_storage' \notin 1 .. Len(heap')
    /\ call'.op = "InsertScan" => ReturnedCloud' = ReturnedCloud

C13_SurroundIsCopy == [][C13_Step]_vars

\* the cloud of the cell (0,0,0) was returned with one point; the InsertScan
\* that followed appended to that cell's cloud and its filter emptied it
C13_Witness ==
    /\ call.op = "InsertScan"
    /\ ~aborted
    /\ nops = 2
    /\ Len(heap) = 1
    /\ heap[1] = << >>
    /\ 1 \in DOMAIN filter_calls
    /\ ReturnedCloud = << <<0, 0, 0>> >>

(***************************************************************************)
(* GetCellIndex as a function: the point is drawn by Init, the action      *)
(* applies GetCellIndex to it.                                             *)
(***************************************************************************)
RoundCoordinates == (0 - MaxCells * ResolutionUnits) .. (MaxCells * ResolutionUnits)

RoundPoints ==
    { << x, y, z >> : x \in RoundCoordinates, y \in RoundCoordinates,
                      z \in RoundCoordinates }

InitRound ==
    /\ grid = DynamicGrid_new
    /\ aborted = FALSE
    /\ call \in { [op |-> "point", point |-> point] : point \in RoundPoints }
    /\ written = << >>
    /\ nops = 0
    /\ heap = << >>
    /\ filter_calls = << >>
    /\ surround = << >>
    /\ surround_storage = DefaultValue
    /\ NoLaserMapping
    /\ NoGpsFusion

ApplyGetCellIndex ==
    /\ call.op = "point"
    /\ call' = [op |-> "GetCellIndex", point |-> call.point,
                index |-> GetCellIndex(call.point)]
    /\ UNCHANGED << grid, aborted, written, nops >>
    /\ UNCHANGED hybridVars
    /\ UNCHANGED mappingVars
    /\ UNCHANGED gpsVars

NextRound == ApplyGetCellIndex

SpecRound == InitRound /\ [][NextRound]_vars

Abs(x) == IF x < 0 THEN 0 - x ELSE x

\* the coordinate c (point units) lies within half a cell of the cell r
IsNearest(c, r) == Abs(2 * c - 2 * r * ResolutionUnits) <= ResolutionUnits

\* c lies exactly halfway between the cell r and a neighbour of r
IsTie(c, r) == Abs(2 * c - 2 * r * ResolutionUnits) = ResolutionUnits

(***************************************************************************)
(* C14 as claimed: each coordinate of point / resolution goes to the       *)
(* nearest integer, a coordinate exactly halfway between two integers to   *)
(* the even one.                                                           *)
(***************************************************************************)
C14_Original ==
    call.op = "GetCellIndex" =>
        \A axis \in 1 .. 3 :
            /\ IsNearest(call.point[axis], call.index[axis])
            /\ IsTie(call.point[axis], call.index[axis]) =>
                   call.index[axis] % 2 = 0

(***************************************************************************)
(* C14 as amended: each coordinate of point / resolution goes to the       *)
(* nearest integer, a coordinate exactly halfway between two integers to   *)
(* the one farther from zero (std::lround), on the three axes alike and    *)
(* for negative coordinates: 0.5 goes to 1, -0.5 to -1, 1.5 to 2.          *)
(***************************************************************************)
C14_HalfAwayFromZero ==
    call.op = "GetCellIndex" =>
        \A axis \in 1 .. 3 :
            /\ IsNearest(call.point[axis], call.index[axis])
            /\ IsTie(call.point[axis], call.index[axis]) =>
                   Abs(call.index[axis] * ResolutionUnits) > Abs(call.point[axis])

\* the point (0.5, -0.5, 1.5) cells went to the cell (1, -1, 2)
C14_Witness ==
    /\ call.op = "GetCellIndex"
    /\ 2 * (ResolutionUnits \div 2) = ResolutionUnits
    /\ call.point = << ResolutionUnits \div 2, 0 - (ResolutionUnits \div 2),
                       ResolutionUnits + ResolutionUnits \div 2 >>
    /\ call.index = << 1, -1, 2 >>

(***************************************************************************)
(* C15.  InsertScan with an empty scan returns without changing the grid:  *)
(* no allocation, no growth, no filter call.  GetSurroundedCloud with an   *)
(* empty scan returns an empty cloud.  Neither fails.                      *)
(***************************************************************************)
C15_Step ==
    /\ (call'.op = "InsertScan" /\ call'.scan = << >>) =>
           /\ ~aborted'
           /\ grid' = grid
           /\ heap' = heap
           /\ DOMAIN filter_calls' = {}
    /\ (call'.op = "GetSurroundedCloud" /\ call'.scan = << >>) =>
           /\ ~aborted'
           /\ surround' = << >>
           /\ surround_storage' = NullCloud

C15_EmptyScan == [][C15_Step]_vars

\* InsertScan of the empty scan on a grid that holds two clouds with points
C15_Witness ==
    /\ call.op = "InsertScan"
    /\ call.scan = << >>
    /\ ~aborted
    /\ Len(heap) = 2
    /\ heap[1] # << >>
    /\ heap[2] # << >>
    /\ DOMAIN filter_calls = {}

(***************************************************************************)
(* InsertScan and GetSurroundedCloud called with a null scan handle.       *)
(*                                                                         *)
(* Neither function tests the handle: InsertScan evaluates scan->empty()   *)
(* and GetSurroundedCloud iterates over *scan.  Dereferencing the null     *)
(* handle is undefined; the outcomes kept here are the end of the process  *)
(* (a failed assertion of the smart pointer, a memory fault) and a read    *)
(* that happens to see a cloud without points.                             *)
(***************************************************************************)
NullDereferenceOutcomes == { "fault", "reads_empty" }

\* InsertScan(scan, filter) with scan == nullptr
InsertScanNullHandle ==
    /\ ~aborted
    /\ \E outcome \in NullDereferenceOutcomes :
          /\ call' = [op |-> "InsertScan(null)", outcome |-> outcome]
          /\ aborted' = (outcome = "fault")
    /\ filter_calls' = << >>
    /\ UNCHANGED << grid, heap, nops, written, surround, surround_storage >>
    /\ UNCHANGED mappingVars
    /\ UNCHANGED gpsVars

\* GetSurroundedCloud(scan, pose) with scan == nullptr
GetSurroundedCloudNullHandle ==
    /\ ~aborted
    /\ \E outcome \in NullDereferenceOutcomes :
          /\ call' = [op |-> "GetSurroundedCloud(null)", outcome |-> outcome]
          /\ aborted' = (outcome = "fault")
          /\ IF outcome = "fault"
             THEN UNCHANGED << surround, surround_storage >>
             ELSE /\ surround' = << >>
                  /\ surround_storage' = NullCloud
    /\ UNCHANGED << grid, heap, nops, written, filter_calls >>
    /\ UNCHANGED mappingVars
    /\ UNCHANGED gpsVars

NextNullHandle ==
    \/ NextHybrid
    \/ InsertScanNullHandle
    \/ GetSurroundedCloudNullHandle

SpecNullHandle == InitHybrid /\ [][NextNullHandle]_vars

(***************************************************************************)
(* C16 as claimed: InsertScan and GetSurroundedCloud called with a null    *)
(* scan handle return silently: InsertScan leaves the grid as it was,      *)
(* GetSurroundedCloud returns an empty cloud.                              *)
(***************************************************************************)
C16_Step ==
    /\ call'.op = "InsertScan(null)" =>
           /\ ~aborted'
           /\ grid' = grid
           /\ heap' = heap
    /\ call'.op = "GetSurroundedCloud(null)" =>
           /\ ~aborted'
           /\ surround' = << >>

C16_NullScanReturns == [][C16_Step]_vars

(***************************************************************************)
(* The hybrid grid used with a downsampling filter: a filter that returns  *)
(* at least one point for an input with points and never more points than *)
(* its input (pcl::VoxelGrid, the filter LaserMapping passes).             *)
(***************************************************************************)
\* InsertScan(scan, filter) with such a filter
InsertScanDownsampling(scan) ==
    /\ InsertScan(scan)
    /\ \A input \in { AppendScan(grid, heap, scan).heap } :
       \A p \in DOMAIN filter_calls' :
           /\ input[p] # << >> => heap'[p] # << >>
           /\ Len(heap'[p]) <= Len(input[p])

NextDownsampling ==
    \/ \E scan \in MapScans : InsertScanDownsampling(scan)
    \/ \E scan \in QueryScans, pose \in Poses : GetSurroundedCloud(scan, pose)

SpecDownsampling == InitHybrid /\ [][NextDownsampling]_vars

(***************************************************************************)
(* C17.  With a downsampling filter, after every InsertScan each cell      *)
(* yielded by the iteration holds a cloud with at least one point, and the *)
(* cloud of each filtered cell has at most the points it had just before   *)
(* the filter ran.                                                         *)
(***************************************************************************)
C17_Step ==
    call'.op = "InsertScan" =>
        /\ \A cells \in { Iterate(grid') } :
           \A i \in 1 .. Len(cells) :
               /\ cells[i].value \in 1 .. Len(heap')
               /\ Len(heap'[cells[i].value]) >= 1
        /\ \A input \in { AppendScan(grid, heap, call'.scan).heap } :
           \A p \in DOMAIN filter_calls' :
               Len(heap'[p]) <= Len(input[p])

C17_YieldedCellsHavePoints == [][C17_Step]_vars

\* two cells hold clouds; the second scan put two points into the cloud of
\* the cell (0,0,0) and the filter left one point of it
C17_Witness ==
    /\ call.op = "InsertScan"
    /\ ~aborted
    /\ call.scan = << <<1, -1, 0>>, <<0, 0, 0>> >>
    /\ Len(heap) = 2
    /\ Len(heap[1]) = 1
    /\ Len(heap[2]) >= 1
    /\ Len(Iterate(grid)) = 2

(***************************************************************************)
(* LaserMapping: the thread that calls AddLaserOdometryResult, the thread  *)
(* that runs Run(), started by the constructor, and the thread that runs   *)
(* the destructor.                                                         *)
(*                                                                         *)
(* Each block of code that holds mutex_ is one step.  wait_for returns     *)
(* with the value its predicate has under the mutex: TRUE as soon as the   *)
(* queue has an entry, FALSE when the 50 ms have passed and the queue is   *)
(* empty.  A call on a hybrid grid takes two steps, its entry and its      *)
(* return; what the call does to the grid is the subject of SpecHybrid and *)
(* is not repeated here, and every call is taken to return.                *)
(***************************************************************************)
\* the calls Run() makes on the two grids for one result, in program order
\* mutant: the scans are inserted before the surround clouds are collected
RunGridCalls_InsertFirst ==
    << [map |-> "corner", op |-> "InsertScan"],
       [map |-> "surf", op |-> "InsertScan"],
       [map |-> "corner", op |-> "GetSurroundedCloud"],
       [map |-> "surf", op |-> "GetSurroundedCloud"] >>

RunGridCalls ==
    << [map |-> "corner", op |-> "GetSurroundedCloud"],
       [map |-> "surf", op |-> "GetSurroundedCloud"],
       [map |-> "corner", op |-> "InsertScan"],
       [map |-> "surf", op |-> "InsertScan"] >>

\* LaserMapping::LaserMapping(is_offline_mode), which starts Run()
InitLaserMapping ==
    /\ grid = DynamicGrid_new
    /\ aborted = FALSE
    /\ call = [op |-> "new"]
    /\ written = << >>
    /\ nops = 0
    /\ heap = << >>
    /\ filter_calls = << >>
    /\ surround = << >>
    /\ surround_storage = DefaultValue
    /\ odometry_result_queue_ = << >>
    /\ g_should_exit = FALSE
    /\ g_is_offline_mode \in BOOLEAN
    /\ ros_ok = TRUE
    /\ produced = 0
    /\ run_pc = "while"
    /\ run_call = 1
    /\ odom_result = 0
    /\ processed = << >>
    /\ frame_ops = << >>
    /\ in_grid = {}
    /\ dtor_pc = "alive"
    /\ NoGpsFusion

gridVars == << grid, aborted, call, written, nops, heap, filter_calls,
              surround, surround_storage >>

\* mutant: the queue has a capacity of one; a result that finds it full is
\* not queued
AddLaserOdometryResult_Capacity1 ==
    /\ dtor_pc # "joined"
    /\ produced < MaxFrames
    /\ produced' = produced + 1
    /\ odometry_result_queue_' =
           IF Len(odometry_result_queue_) >= 1
           THEN odometry_result_queue_
           ELSE Append(odometry_result_queue_, produced + 1)
    /\ UNCHANGED << g_should_exit, g_is_offline_mode, ros_ok, run_pc, run_call,
                    odom_result, processed, frame_ops, in_grid, dtor_pc >>
    /\ UNCHANGED gridVars
    /\ UNCHANGED gpsVars

\* mutant: the producer inserts the scan of the result into the corner map
AddLaserOdometryResult_InsertsScan ==
    /\ dtor_pc # "joined"
    /\ produced < MaxFrames
    /\ produced' = produced + 1
    /\ odometry_result_queue_' = Append(odometry_result_queue_, produced + 1)
    /\ in_grid' = in_grid \cup
           { [thread |-> "AddLaserOdometryResult", map |-> "corner",
              op |-> "InsertScan"] }
    /\ UNCHANGED << g_should_exit, g_is_offline_mode, ros_ok, run_pc, run_call,
                    odom_result, processed, frame_ops, dtor_pc >>
    /\ UNCHANGED gridVars
    /\ UNCHANGED gpsVars

\* LaserMapping::AddLaserOdometryResult(laser_odometry_result): under the
\* mutex the result is pushed and the condition variable notified; the
\* odometry message published afterwards touches nothing modelled here
AddLaserOdometryResult ==
    /\ dtor_pc # "joined"
    /\ produced < MaxFrames
    /\ produced' = produced + 1
    /\ odometry_result_queue_' = Append(odometry_result_queue_, produced + 1)
    /\ UNCHANGED << g_should_exit, g_is_offline_mode, ros_ok, run_pc, run_call,
                    odom_result, processed, frame_ops, in_grid, dtor_pc >>
    /\ UNCHANGED gridVars
    /\ UNCHANGED gpsVars

\* while (ros::ok())
RunWhile ==
    /\ run_pc = "while"
    /\ run_pc' = IF ros_ok THEN "wait_for" ELSE "returned"
    /\ UNCHANGED << odometry_result_queue_, g_should_exit, g_is_offline_mode,
                    ros_ok, produced, run_call, odom_result, processed,
                    frame_ops, in_grid, dtor_pc >>
    /\ UNCHANGED gridVars
    /\ UNCHANGED gpsVars

\* mutant: the wait that timed out always continues
RunDequeue_IgnoresExit ==
    /\ run_pc = "wait_for"
    /\ IF odometry_result_queue_ # << >>
       THEN /\ odom_result' = Head(odometry_result_queue_)
            /\ odometry_result_queue_' =
                   IF g_is_offline_mode THEN Tail(odometry_result_queue_)
                   ELSE << >>
            /\ processed' = Append(processed, Head(odometry_result_queue_))
            /\ frame_ops' = << >>
            /\ run_call' = 1
            /\ run_pc' = "call"
       ELSE /\ run_pc' = "while"
            /\ UNCHANGED << odom_result, odometry_result_queue_, processed,
                            frame_ops, run_call >>
    /\ UNCHANGED << g_should_exit, g_is_offline_mode, ros_ok, produced,
                    in_grid, dtor_pc >>
    /\ UNCHANGED gridVars
    /\ UNCHANGED gpsVars

\* mutant: g_should_exit is tested before the queue is looked at
RunDequeue_ExitFirst ==
    /\ run_pc = "wait_for"
    /\ IF g_should_exit
       THEN /\ run_pc' = "returned"
            /\ UNCHANGED << odom_result, odometry_result_queue_, processed,
                            frame_ops, run_call >>
       ELSE IF odometry_result_queue_ # << >>
       THEN /\ odom_result' = Head(odometry_result_queue_)
            /\ odometry_result_queue_' =
                   IF g_is_offline_mode THEN Tail(odometry_result_queue_)
                   ELSE << >>
            /\ processed' = Append(processed, Head(odometry_result_queue_))
            /\ frame_ops' = << >>
            /\ run_call' = 1
            /\ run_pc' = "call"
       ELSE /\ run_pc' = "while"
            /\ UNCHANGED << odom_result, odometry_result_queue_, processed,
                            frame_ops, run_call >>
    /\ UNCHANGED << g_should_exit, g_is_offline_mode, ros_ok, produced,
                    in_grid, dtor_pc >>
    /\ UNCHANGED gridVars
    /\ UNCHANGED gpsVars

\* mutant: online mode keeps the rest of the queue, as offline mode does
RunDequeue_OnlineKeepsRest ==
    /\ run_pc = "wait_for"
    /\ IF odometry_result_queue_ # << >>
       THEN /\ odom_result' = Head(odometry_result_queue_)
            /\ odometry_result_queue_' = Tail(odometry_result_queue_)
            /\ processed' = Append(processed, Head(odometry_result_queue_))
            /\ frame_ops' = << >>
            /\ run_call' = 1
            /\ run_pc' = "call"
       ELSE /\ run_pc' = IF g_should_exit THEN "returned" ELSE "while"
            /\ UNCHANGED << odom_result, odometry_result_queue_, processed,
                            frame_ops, run_call >>
    /\ UNCHANGED << g_should_exit, g_is_offline_mode, ros_ok, produced,
                    in_grid, dtor_pc >>
    /\ UNCHANGED gridVars
    /\ UNCHANGED gpsVars

\* the block of Run() that holds the mutex: wait_for, the test of
\* g_should_exit, front/pop and, in online mode, the dropping of the rest
RunDequeue ==
    /\ run_pc = "wait_for"
    /\ IF odometry_result_queue_ # << >>
       THEN \* has_new_msg
            /\ odom_result' = Head(odometry_result_queue_)
            /\ odometry_result_queue_' =
                   IF g_is_offline_mode THEN Tail(odometry_result_queue_)
                   ELSE << >>
            /\ processed' = Append(processed, Head(odometry_result_queue_))
            /\ frame_ops' = << >>
            /\ run_call' = 1
            /\ run_pc' = "call"
       ELSE \* timed out: break or continue
            /\ run_pc' = IF g_should_exit THEN "returned" ELSE "while"
            /\ UNCHANGED << odom_result, odometry_result_queue_, processed,
                            frame_ops, run_call >>
    /\ UNCHANGED << g_should_exit, g_is_offline_mode, ros_ok, produced,
                    in_grid, dtor_pc >>
    /\ UNCHANGED gridVars
    /\ UNCHANGED gpsVars

\* Run() enters its next call on a grid
RunEnterGridCall ==
    /\ run_pc = "call"
    /\ in_grid' = in_grid \cup
           { [thread |-> "Run", map |-> RunGridCalls[run_call].map,
              op |-> RunGridCalls[run_call].op] }
    /\ run_pc' = "in_call"
    /\ UNCHANGED << odometry_result_queue_, g_should_exit, g_is_offline_mode,
                    ros_ok, produced, run_call, odom_result, processed,
                    frame_ops, dtor_pc >>
    /\ UNCHANGED gridVars
    /\ UNCHANGED gpsVars

\* the call returns
RunLeaveGridCall ==
    /\ run_pc = "in_call"
    /\ in_grid' = in_grid \
           { [thread |-> "Run", map |-> RunGridCalls[run_call].map,
              op |-> RunGridCalls[run_call].op] }
    /\ frame_ops' = Append(frame_ops, RunGridCalls[run_call])
    /\ IF run_call < Len(RunGridCalls)
       THEN run_call' = run_call + 1 /\ run_pc' = "call"
       ELSE run_call' = run_call /\ run_pc' = "publish"
    /\ UNCHANGED << odometry_result_queue_, g_should_exit, g_is_offline_mode,
                    ros_ok, produced, odom_result, processed, dtor_pc >>
    /\ UNCHANGED gridVars
    /\ UNCHANGED gpsVars

\* the rest of the loop body: publishing, AddLocalPose, frame_idx_cur_++
RunPublish ==
    /\ run_pc = "publish"
    /\ run_pc' = "while"
    /\ UNCHANGED << odometry_result_queue_, g_should_exit, g_is_offline_mode,
                    ros_ok, produced, run_call, odom_result, processed,
                    frame_ops, in_grid, dtor_pc >>
    /\ UNCHANGED gridVars
    /\ UNCHANGED gpsVars

\* ros::ok() turns false (ros::shutdown, SIGINT)
RosShutdown ==
    /\ ros_ok
    /\ ros_ok' = FALSE
    /\ UNCHANGED << odometry_result_queue_, g_should_exit, g_is_offline_mode,
                    produced, run_pc, run_call, odom_result, processed,
                    frame_ops, in_grid, dtor_pc >>
    /\ UNCHANGED gridVars
    /\ UNCHANGED gpsVars

\* ~LaserMapping(): g_should_exit = true under the mutex
DestructorSetsExit ==
    /\ dtor_pc = "alive"
    /\ g_should_exit' = TRUE
    /\ dtor_pc' = "join"
    /\ UNCHANGED << odometry_result_queue_, g_is_offline_mode, ros_ok,
                    produced, run_pc, run_call, odom_result, processed,
                    frame_ops, in_grid >>
    /\ UNCHANGED gridVars
    /\ UNCHANGED gpsVars

\* thread_.join() returns once Run() has returned
DestructorJoin ==
    /\ dtor_pc = "join"
    /\ run_pc = "returned"
    /\ dtor_pc' = "joined"
    /\ UNCHANGED << odometry_result_queue_, g_should_exit, g_is_offline_mode,
                    ros_ok, produced, run_pc, run_call, odom_result, processed,
                    frame_ops, in_grid >>
    /\ UNCHANGED gridVars
    /\ UNCHANGED gpsVars

RunStep ==
    \/ RunWhile
    \/ RunDequeue
    \/ RunEnterGridCall
    \/ RunLeaveGridCall
    \/ RunPublish

NextLaserMapping ==
    \/ AddLaserOdometryResult
    \/ RunStep
    \/ RosShutdown
    \/ DestructorSetsExit
    \/ DestructorJoin

SpecLaserMapping == InitLaserMapping /\ [][NextLaserMapping]_vars

\* the thread of Run() keeps running (wait_for returns after 50 ms at the
\* latest) and join() returns when it can
SpecLaserMappingFair ==
    /\ SpecLaserMapping
    /\ WF_vars(RunStep)
    /\ WF_vars(DestructorJoin)

(***************************************************************************)
(* C18 as claimed: the queue between AddLaserOdometryResult and Run() is   *)
(* bounded: there is a capacity, below the number of results the producer  *)
(* hands over, that its length never exceeds, in offline and online mode.  *)
(***************************************************************************)
C18_Original == Len(odometry_result_queue_) < MaxFrames

(***************************************************************************)
(* C18 as amended: the queue has no capacity.  Every call of               *)
(* AddLaserOdometryResult appends its result, whatever the length; only    *)
(* the dequeue of Run() shortens the queue, by its oldest entry in offline *)
(* mode and to the empty queue in online mode.  The length is therefore    *)
(* limited only by the number of results handed over since the last        *)
(* dequeue: in offline mode it is the number of results handed over minus  *)
(* the number taken for processing.                                        *)
(***************************************************************************)
C18_Step ==
    /\ produced' # produced =>
           /\ produced' = produced + 1
           /\ odometry_result_queue_' = Append(odometry_result_queue_, produced')
    /\ Len(odometry_result_queue_') < Len(odometry_result_queue_) =>
           /\ run_pc = "wait_for"
           /\ odometry_result_queue_' =
                  IF g_is_offline_mode THEN Tail(odometry_result_queue_)
                  ELSE << >>
    /\ Len(odometry_result_queue_') + Len(processed') <= produced'
    /\ g_is_offline_mode' =>
           Len(odometry_result_queue_') + Len(processed') = produced'

C18_QueueUnbounded == [][C18_Step]_vars

\* online mode: Run() is inside a grid call for the first result while every
\* later result handed over waits in the queue
C18_Witness ==
    /\ ~g_is_offline_mode
    /\ run_pc = "in_call"
    /\ odom_result = 1
    /\ produced = MaxFrames
    /\ Len(odometry_result_queue_) = MaxFrames - 1

(***************************************************************************)
(* C19.  Every call on the two hybrid grids is made by the thread that     *)
(* runs Run(); AddLaserOdometryResult touches no grid, so in every         *)
(* interleaving of the producer, the destructor and Run() at most one grid *)
(* call is being executed.                                                 *)
(***************************************************************************)
C19_GridCallsByRunOnly ==
    /\ \A o \in in_grid : o.thread = "Run"
    /\ Cardinality(in_grid) <= 1
    /\ in_grid # {} => run_pc = "in_call"

\* Run() is inside InsertScan on the surf map; meanwhile the producer has
\* handed over every result and the destructor waits in join()
C19_Witness ==
    /\ in_grid = { [thread |-> "Run", map |-> "surf", op |-> "InsertScan"] }
    /\ produced = MaxFrames
    /\ odometry_result_queue_ # << >>
    /\ dtor_pc = "join"

(***************************************************************************)
(* C20.  Once ~LaserMapping() has set g_should_exit, Run() eventually      *)
(* returns and the destructor's join() returns, given that the producer    *)
(* stops handing over results and each frame's processing completes.       *)
(***************************************************************************)
C20_RunTerminates == g_should_exit ~> (run_pc = "returned" /\ dtor_pc = "joined")

\* offline mode, ros::ok() still true: every result was processed before
\* Run() saw the flag, and join() has returned
C20_Witness ==
    /\ dtor_pc = "joined"
    /\ ros_ok
    /\ g_is_offline_mode
    /\ Len(processed) = MaxFrames


(***************************************************************************)
(* C21.  A DynamicGrid starts with bits_ = 1 and 8 null handles; in every  *)
(* reachable state 1 <= bits_ <= 8, the handle vector has (2^bits_)^3      *)
(* slots (every non-null handle sits in one of them), and no step          *)
(* decreases bits_.                                                        *)
(***************************************************************************)
C21_BitsAndVectorSize ==
    /\ grid.bits_ = 1 /\ grid.meta_cells_size = 8 /\ DOMAIN grid.meta_cells_ = {}
    /\ [](/\ 1 <= grid.bits_ /\ grid.bits_ <= 8
          /\ grid.meta_cells_size = Pow2(grid.bits_) * Pow2(grid.bits_) * Pow2(grid.bits_)
          /\ DOMAIN grid.meta_cells_ \subseteq 0 .. (grid.meta_cells_size - 1))
    /\ [][grid'.bits_ >= grid.bits_]_vars

\* the grid has grown to its largest size, and a later write outside it
\* has failed the CHECK of Grow(), leaving bits_ at 8
C21_Witness ==
    /\ grid.bits_ = 8
    /\ grid.meta_cells_size = 16777216
    /\ DOMAIN grid.meta_cells_ # {}
    /\ aborted


(***************************************************************************)
(* C22.  Growth re-centres the handles.                                    *)
(***************************************************************************)
\* where the handle of slot flat is after growing from bits_from to
\* bits_to: each single step adds 2^(bits - 1) to its meta index
GrownFlat(flat, bits_from, bits_to) ==
    ToFlatIndex(ArrAddScalar(To3DIndex(flat, bits_from),
                             Pow2(bits_to - 1) - Pow2(bits_from - 1)),
                bits_to)

\* the signed index of the first voxel of the sub-grid held by slot flat
SubGridOrigin(flat, bits) ==
    ArrMulScalar(ArrAddScalar(To3DIndex(flat, bits), 0 - Pow2(bits - 1)),
                 NestedGrid_grid_size)

\* every handle of old is found, unchanged and covering the same signed
\* voxels, at its moved slot of new; new holds these and extra more handles
HandlesMoved(old, new, extra) ==
    /\ \A f \in DOMAIN old.meta_cells_ :
          LET n == GrownFlat(f, old.bits_, new.bits_)
          IN  /\ n \in DOMAIN new.meta_cells_
              /\ new.meta_cells_[n] = old.meta_cells_[f]
              /\ SubGridOrigin(n, new.bits_) = SubGridOrigin(f, old.bits_)
    /\ \A f1, f2 \in DOMAIN old.meta_cells_ :
          GrownFlat(f1, old.bits_, new.bits_) = GrownFlat(f2, old.bits_, new.bits_)
             => f1 = f2
    /\ Cardinality(DOMAIN new.meta_cells_)
          = Cardinality(DOMAIN old.meta_cells_) + extra

(***************************************************************************)
(* C22.  One Grow() step on any reachable grid puts the handle of old meta *)
(* index (x, y, z) at (x, y, z) + 2^(bits_ - 1), leaves every other new    *)
(* slot null, loses and duplicates no handle and keeps the signed voxel    *)
(* range of every sub-grid; a write that grows the grid therefore finds    *)
(* all earlier handles moved, plus the one it allocates if it returns.     *)
(***************************************************************************)
C22_GrowMovesHandles ==
    /\ [](GrowCheck(grid) =>
            /\ Grow(grid).bits_ = grid.bits_ + 1
            /\ HandlesMoved(grid, Grow(grid), 0)
            /\ \A f \in DOMAIN grid.meta_cells_ :
                  To3DIndex(GrownFlat(f, grid.bits_, grid.bits_ + 1), grid.bits_ + 1)
                     = ArrAddScalar(To3DIndex(f, grid.bits_), Pow2(grid.bits_ - 1)))
    /\ [][grid'.bits_ > grid.bits_ =>
             HandlesMoved(grid, grid', IF aborted' THEN 0 ELSE 1)]_vars

\* the write at (64, 0, 0) has grown the grid once, from bits_ = 1 holding
\* the sub-grid of (0, 0, 0), which is now at meta index (2, 2, 2)
C22_Witness ==
    /\ nops = 2
    /\ call.op = "mutable_value" /\ call.index = <<64, 0, 0>>
    /\ <<0, 0, 0>> \in DOMAIN written
    /\ grid.bits_ = 2
    /\ ToFlatIndex(<<2, 2, 2>>, 2) \in DOMAIN grid.meta_cells_


(***************************************************************************)
(* C23.  Minimal growth.                                                   *)
(***************************************************************************)
\* every component of index lies in [-2^(bits - 1) * 64, 2^(bits - 1) * 64)
InRangeOfBits(index, bits) ==
    \A i \in 1 .. 3 :
        /\ 0 - Pow2(bits - 1) * NestedGrid_grid_size <= index[i]
        /\ index[i] < Pow2(bits - 1) * NestedGrid_grid_size

\* the values of bits_, from the current one to the cap, whose range
\* contains index
FittingBits(index, bits) ==
    { b \in bits .. kMaxBits : InRangeOfBits(index, b) }

(***************************************************************************)
(* C23.  A write at an index inside the current range does not grow the    *)
(* grid; otherwise the write leaves bits_ at the smallest value whose      *)
(* range contains the index (it aborts at bits_ = 8 when there is none).   *)
(* The first write, at (1000, 0, 0), ends with bits_ = 5 and               *)
(* value((-1000, 0, 0)) still default.                                     *)
(***************************************************************************)
C23_MinimalGrowth ==
    /\ []((nops = 1 /\ call.op = "mutable_value" /\ call.index = <<1000, 0, 0>>) =>
            /\ grid.bits_ = 5
            /\ DynamicGrid_value(grid, <<-1000, 0, 0>>) = DefaultValue)
    /\ [][nops' = nops + 1 =>
            LET fitting == FittingBits(call'.index, grid.bits_)
            IN  /\ InRangeOfBits(call'.index, grid.bits_) => grid'.bits_ = grid.bits_
                /\ IF fitting # {}
                   THEN ~aborted' /\ grid'.bits_ = MinOf(fitting)
                   ELSE aborted' /\ grid'.bits_ = kMaxBits]_vars

\* the first write, at (1000, 0, 0), has grown the grid from bits_ = 1
C23_Witness ==
    /\ nops = 1
    /\ call.op = "mutable_value" /\ call.index = <<1000, 0, 0>>
    /\ ~aborted
    /\ grid.bits_ > 1


(***************************************************************************)
(* C24.  Lazy allocation.                                                  *)
(***************************************************************************)
\* the slots of the DynamicGrid that hold a NestedGrid
NestedHandles(g) == DOMAIN g.meta_cells_

\* <<outer flat, nested flat>> of the slots that hold a FlatGrid
FlatHandles(g) ==
    UNION { { << f, k >> : k \in DOMAIN g.meta_cells_[f].meta_cells_ } :
            f \in DOMAIN g.meta_cells_ }

\* the slots that mutable_value calls have gone through so far
TouchedNested(g) == { CellPath(g, w)[1] : w \in DOMAIN written }

TouchedFlat(g) ==
    { << CellPath(g, w)[1], CellPath(g, w)[2] >> : w \in DOMAIN written }

(***************************************************************************)
(* C24.  A NestedGrid or FlatGrid handle is non-null exactly when a        *)
(* mutable_value call has gone into its sub-range; one call allocates at   *)
(* most one NestedGrid and at most one FlatGrid, whose cells are all       *)
(* default but the one written through the returned pointer; and every     *)
(* non-null handle is still non-null after the step, at its moved slot     *)
(* when the grid grew.                                                     *)
(***************************************************************************)
C24_LazyAllocation ==
    /\ [](~aborted =>
            /\ NestedHandles(grid) = TouchedNested(grid)
            /\ FlatHandles(grid) = TouchedFlat(grid))
    /\ [][grid' # grid =>
            \A after \in { grid' } :
            \A kept \in { { << GrownFlat(p[1], grid.bits_, after.bits_), p[2] >> :
                            p \in FlatHandles(grid) } } :
            \A flats \in { FlatHandles(after) } :
            \A target \in { CellPath(after, call'.index)[3] } :
              /\ Cardinality(NestedHandles(after)) <= Cardinality(NestedHandles(grid)) + 1
              /\ Cardinality(flats) <= Cardinality(FlatHandles(grid)) + 1
              /\ \A f \in NestedHandles(grid) :
                    GrownFlat(f, grid.bits_, after.bits_) \in NestedHandles(after)
              /\ kept \subseteq flats
              /\ \A p \in flats \ kept :
                    \A c \in 0 .. (FlatGrid_num_cells - 1) :
                        c # target =>
                            IsDefaultValue(
                                after.meta_cells_[p[1]].meta_cells_[p[2]].cells_[c])]_vars

\* (0,0,0) and (9,0,0) were written into one NestedGrid but two FlatGrids;
\* the write at (64,0,0) then grew the grid and allocated one of each
C24_Witness ==
    /\ nops = 3
    /\ call.op = "mutable_value" /\ call.index = <<64, 0, 0>>
    /\ DOMAIN written = { <<0, 0, 0>>, <<9, 0, 0>>, <<64, 0, 0>> }
    /\ Cardinality(NestedHandles(grid)) = 2
    /\ Cardinality(FlatHandles(grid)) = 3


(***************************************************************************)
(* C25.  Iteration depends on the cell contents only.                      *)
(***************************************************************************)
\* the position of a signed index in the three levels, independent of
\* bits_: z, y, x of the 64-voxel block, then of the 8-voxel block in it,
\* then of the voxel in that
CanonicalKey(index) ==
    LET block(i) == index[i] \div NestedGrid_grid_size
        sub(i) == (index[i] % NestedGrid_grid_size) \div FlatGrid_grid_size
        voxel(i) == index[i] % FlatGrid_grid_size
    IN  << block(3), block(2), block(1), sub(3), sub(2), sub(1),
           voxel(3), voxel(2), voxel(1) >>

\* lexicographic order on keys
KeyLess(p, q) ==
    \E n \in 1 .. 9 : p[n] < q[n] /\ \A m \in 1 .. (n - 1) : p[m] = q[m]

(***************************************************************************)
(* C25.  The sequence of (signed index, value) pairs that iteration yields *)
(* is fixed by the set of non-default cells: it lists exactly these cells  *)
(* in an order of their signed indices that does not mention bits_ or the  *)
(* order of the writes, and a Grow() step leaves the sequence unchanged.   *)
(***************************************************************************)
C25_IterationByContentsOnly ==
    [](~aborted =>
        \A seq \in { Iterate(grid) } :
            /\ Len(seq) = Cardinality(StoredNonDefault)
            /\ { seq[i] : i \in 1 .. Len(seq) }
                  = { [index |-> ix, value |-> written[ix]] : ix \in StoredNonDefault }
            /\ \A i \in 1 .. (Len(seq) - 1) :
                  KeyLess(CanonicalKey(seq[i].index), CanonicalKey(seq[i + 1].index))
            /\ GrowCheck(grid) => Iterate(Grow(grid)) = seq)

\* three non-default cells; the last write, in another octant, grew the
\* grid holding the other two to bits_ = 8
C25_Witness ==
    /\ nops = 3
    /\ Cardinality(StoredNonDefault) = 3
    /\ call.op = "mutable_value" /\ call.index = <<-8192, 0, 8191>>
    /\ <<1000, 0, 0>> \in StoredNonDefault
    /\ grid.bits_ = kMaxBits


(***************************************************************************)
(* C26.  Offline mode keeps every result.                                  *)
(***************************************************************************)
\* the elements of a sequence
ElementsOf(seq) == { seq[i] : i \in 1 .. Len(seq) }

(***************************************************************************)
(* C26.  In offline mode the results taken by Run() followed by the ones   *)
(* still queued are always the results handed over, in the order they were *)
(* handed over: none is dropped, repeated or reordered.  While ros::ok()   *)
(* holds, Run() returns only from a wait that found the queue empty with   *)
(* g_should_exit set, and a result that is in the queue while Run() is     *)
(* still running is eventually taken for processing, whether or not        *)
(* g_should_exit is set meanwhile, unless ros::ok() turns false.           *)
(***************************************************************************)
C26_OfflineFifoExactlyOnce ==
    /\ [](g_is_offline_mode =>
            processed \o odometry_result_queue_ = [n \in 1 .. produced |-> n])
    /\ [][(g_is_offline_mode /\ ros_ok /\ run_pc # "returned" /\ run_pc' = "returned")
             => (odometry_result_queue_ = << >> /\ g_should_exit
                 /\ processed = [n \in 1 .. produced |-> n])]_vars
    /\ \A n \in 1 .. MaxFrames :
          (g_is_offline_mode /\ n \in ElementsOf(odometry_result_queue_)
             /\ run_pc # "returned")
          ~> (n \in ElementsOf(processed) \/ ~ros_ok)

\* offline, ros::ok() true: the destructor has set g_should_exit and waits
\* in join(); Run() has taken every result, in order, and has returned
C26_Witness ==
    /\ g_is_offline_mode
    /\ ros_ok
    /\ dtor_pc = "join"
    /\ run_pc = "returned"
    /\ processed = [n \in 1 .. MaxFrames |-> n]
    /\ odometry_result_queue_ = << >>


(***************************************************************************)
(* C27.  Online mode drops what it cannot keep up with.                    *)
(***************************************************************************)
\* the results handed over that are neither queued nor taken by Run()
Discarded ==
    (1 .. produced) \ (ElementsOf(processed) \cup ElementsOf(odometry_result_queue_))

(***************************************************************************)
(* C27.  In online mode each dequeue of Run() takes the oldest queued      *)
(* result for processing and leaves the queue empty when the mutex is      *)
(* released, discarding the newer results queued at that moment; a         *)
(* discarded result stays discarded, so it is never processed.             *)
(***************************************************************************)
C27_OnlineTakesOldestDropsRest ==
    /\ [][(~g_is_offline_mode /\ processed' # processed) =>
             /\ odom_result' = Head(odometry_result_queue_)
             /\ processed' = Append(processed, Head(odometry_result_queue_))
             /\ odometry_result_queue_' = << >>
             /\ Discarded' = Discarded \cup ElementsOf(Tail(odometry_result_queue_))]_vars
    /\ [][~g_is_offline_mode => Discarded \subseteq Discarded']_vars

\* online: results 1 and 2 were queued when Run() first took the mutex, so
\* 2 was discarded; result 3 came later and is being processed
C27_Witness ==
    /\ ~g_is_offline_mode
    /\ processed = <<1, 3>>
    /\ Discarded = {2}
    /\ odometry_result_queue_ = << >>
    /\ run_pc = "in_call"


(***************************************************************************)
(* C28.  Collect first, insert afterwards.                                 *)
(***************************************************************************)
Maps == {"corner", "surf"}

\* the calls of the given kind that Run() has completed for the current frame
DoneFor(ops, op) == { m \in Maps : [map |-> m, op |-> op] \in ElementsOf(ops) }

\* the frames whose scan has been inserted into map m: the earlier frames,
\* and the current one once its InsertScan on m has returned
FramesIn(m) ==
    { processed[i] : i \in 1 .. (Len(processed) - 1) }
    \cup (IF m \in DoneFor(frame_ops, "InsertScan") THEN { odom_result } ELSE {})

(***************************************************************************)
(* C28.  In every iteration of Run() that dequeued a result: no            *)
(* GetSurroundedCloud is entered after an InsertScan has been entered,     *)
(* InsertScan is entered only when GetSurroundedCloud has returned on both *)
(* maps, the iteration reaches its end only when InsertScan has returned   *)
(* on both maps, and when GetSurroundedCloud runs on a map that map holds  *)
(* no points of the frame being processed.                                 *)
(***************************************************************************)
C28_CollectBeforeInsert ==
    /\ [](\A o \in in_grid :
            /\ o.op = "GetSurroundedCloud" =>
                  /\ DoneFor(frame_ops, "InsertScan") = {}
                  /\ odom_result \notin FramesIn(o.map)
            /\ o.op = "InsertScan" =>
                  DoneFor(frame_ops, "GetSurroundedCloud") = Maps)
    /\ [](run_pc = "publish" =>
            /\ DoneFor(frame_ops, "GetSurroundedCloud") = Maps
            /\ DoneFor(frame_ops, "InsertScan") = Maps
            /\ Len(frame_ops) = 4)
    /\ [][processed' # processed => (frame_ops' = << >> /\ in_grid' = {})]_vars

\* the second frame: both surround clouds were collected from maps that
\* hold the first frame only, and Run() is now inserting into the surf map
C28_Witness ==
    /\ Len(processed) = 2
    /\ in_grid = { [thread |-> "Run", map |-> "surf", op |-> "InsertScan"] }
    /\ DoneFor(frame_ops, "GetSurroundedCloud") = Maps
    /\ FramesIn("corner") = { processed[1], odom_result }
    /\ FramesIn("surf") = { processed[1] }


(***************************************************************************)
(* GpsFusion (gps_fusion.cc).  A timestamp is a whole number of clock      *)
(* ticks; the translations and poses, which Optimize() hands to the solver *)
(* by address, are not modelled: local_poses_ and fixed_points_ hold the   *)
(* timestamps of their entries.  An iterator into local_poses_ is a        *)
(* position 1 .. Len(local_poses_), begin() being 1 and end() being        *)
(* Len(local_poses_) + 1.                                                  *)
(*                                                                         *)
(* Optimize() evaluates local_poses_.end()->timestamp for every fixed      *)
(* point.  Reading through end() is undefined; the outcomes kept here are  *)
(* a memory fault and a read that sees whatever number lies behind the     *)
(* last element (the same number at every read of one call).               *)
(***************************************************************************)
Times == 0 .. MaxTime

EndDereferenceOutcomes ==
    { [fault |-> TRUE, timestamp |-> 0] }
    \cup { [fault |-> FALSE, timestamp |-> v] : v \in 0 .. (MaxTime + 2) }

\* CompareTimeLT(l, r): l.timestamp < r.timestamp
CompareTimeLT(l, r) == l < r

\* std::upper_bound(begin(), end(), fp, CompareTimeLT): the first position
\* whose element is greater than fp, end() when there is none
upper_bound(poses, fp) ==
    LET greater == { k \in 1 .. Len(poses) : CompareTimeLT(fp, poses[k]) }
    IN  IF greater = {} THEN Len(poses) + 1 ELSE MinOf(greater)

\* the timestamp read through an iterator: an element, or what lies behind
\* the last one
TimestampAt(poses, it, behind_end) ==
    IF it = Len(poses) + 1 THEN behind_end ELSE poses[it]

\* one pass of the loop over the fixed points, up to the CHECK: the two
\* iterators and the numerator and denominator of t
Bracket(poses, fp, behind_end) ==
    LET upper == upper_bound(poses, fp)
        local_pose_i == upper - 1
        local_pose_j == IF fp = behind_end THEN local_pose_i ELSE upper
    IN  [fp |-> fp,
         local_pose_i |-> local_pose_i,
         local_pose_j |-> local_pose_j,
         num |-> fp - poses[local_pose_i],
         den |-> TimestampAt(poses, local_pose_j, behind_end) - poses[local_pose_i]]

\* t >= 0 && t <= 1 for the double t = num * 1.0 / den: 0/0 is NaN and
\* n/0 is an infinity, for which the test is false
TInUnitInterval(b) ==
    IF b.den = 0 THEN FALSE
    ELSE IF b.den > 0 THEN 0 <= b.num /\ b.num <= b.den
    ELSE b.den <= b.num /\ b.num <= 0

RECURSIVE ResidualBlocks(_, _, _, _)
\* the loop over fixed_points_ from the k-th on: one entry per fixed point
\* reached; it ends after the entry whose CHECK fails
ResidualBlocks(poses, fps, k, behind_end) ==
    IF k > Len(fps)
    THEN << >>
    ELSE LET b == Bracket(poses, fps[k], behind_end)
         IN  IF TInUnitInterval(b)
             THEN << b >> \o ResidualBlocks(poses, fps, k + 1, behind_end)
             ELSE << b >>

\* GpsFusion::GpsFusion()
InitGpsFusion ==
    /\ grid = DynamicGrid_new
    /\ aborted = FALSE
    /\ call = [op |-> "new"]
    /\ written = << >>
    /\ nops = 0
    /\ heap = << >>
    /\ filter_calls = << >>
    /\ surround = << >>
    /\ surround_storage = DefaultValue
    /\ NoLaserMapping
    /\ local_poses_ = << >>
    /\ fixed_points_ = << >>
    /\ gps_call = [op |-> "GpsFusion", blocks |-> << >>]

\* GpsFusion::AddFixedPoint(time, translation)
AddFixedPoint(time) ==
    /\ ~aborted
    /\ IF fixed_points_ = << >> \/ fixed_points_[Len(fixed_points_)] < time
       THEN /\ fixed_points_' = Append(fixed_points_, time)
            /\ aborted' = FALSE
       ELSE /\ fixed_points_' = fixed_points_
            /\ aborted' = TRUE
    /\ gps_call' = [op |-> "AddFixedPoint", blocks |-> << >>]
    /\ UNCHANGED << local_poses_, grid, call, written, nops >>
    /\ UNCHANGED hybridVars
    /\ UNCHANGED mappingVars

\* GpsFusion::AddLocalPose(time, pose)
AddLocalPose(time) ==
    /\ ~aborted
    /\ IF local_poses_ = << >> \/ local_poses_[Len(local_poses_)] < time
       THEN /\ local_poses_' = Append(local_poses_, time)
            /\ aborted' = FALSE
       ELSE /\ local_poses_' = local_poses_
            /\ aborted' = TRUE
    /\ gps_call' = [op |-> "AddLocalPose", blocks |-> << >>]
    /\ UNCHANGED << fixed_points_, grid, call, written, nops >>
    /\ UNCHANGED hybridVars
    /\ UNCHANGED mappingVars

\* the three CHECKs that follow the test of fixed_points_.size()
OptimizePreconditions ==
    /\ Len(local_poses_) > 2
    /\ local_poses_[1] <= fixed_points_[1]
    /\ fixed_points_[Len(fixed_points_)] <= local_poses_[Len(local_poses_)]

\* GpsFusion::Optimize(): the timestamps are left as they are
Optimize ==
    /\ ~aborted
    /\ IF Len(fixed_points_) < 2
       THEN /\ gps_call' = [op |-> "Optimize", blocks |-> << >>]
            /\ aborted' = FALSE
       ELSE IF ~OptimizePreconditions
       THEN /\ gps_call' = [op |-> "Optimize", blocks |-> << >>]
            /\ aborted' = TRUE
       ELSE \E outcome \in EndDereferenceOutcomes :
               IF outcome.fault
               THEN /\ gps_call' = [op |-> "Optimize", blocks |-> << >>]
                    /\ aborted' = TRUE
               ELSE \E blocks \in
                        { ResidualBlocks(local_poses_, fixed_points_, 1,
                                         outcome.timestamp) } :
                       /\ gps_call' = [op |-> "Optimize", blocks |-> blocks]
                       /\ aborted' = ~TInUnitInterval(blocks[Len(blocks)])
    /\ UNCHANGED << local_poses_, fixed_points_, grid, call, written, nops >>
    /\ UNCHANGED hybridVars
    /\ UNCHANGED mappingVars

NextGpsFusion ==
    \/ \E time \in Times : AddFixedPoint(time)
    \/ \E time \in Times : AddLocalPose(time)
    \/ Optimize

SpecGpsFusion == InitGpsFusion /\ [][NextGpsFusion]_vars

(***************************************************************************)
(* C29 as claimed: for every fixed point that Optimize() brackets after    *)
(* the precondition checks passed, local_pose_i and local_pose_j are       *)
(* elements of local_poses_ (not end(), not before begin()) and the        *)
(* interpolation factor t satisfies 0 <= t <= 1.                           *)
(***************************************************************************)
C29_BracketsValid ==
    gps_call.op = "Optimize" =>
        \A n \in 1 .. Len(gps_call.blocks) :
            /\ 1 <= gps_call.blocks[n].local_pose_i
            /\ gps_call.blocks[n].local_pose_i <= Len(local_poses_)
            /\ 1 <= gps_call.blocks[n].local_pose_j
            /\ gps_call.blocks[n].local_pose_j <= Len(local_poses_)
            /\ TInUnitInterval(gps_call.blocks[n])

=============================================================================
